---- MODULE Spec2Model ----
(***************************************************************************)
(* Model of the ddns authoritative DNS server: the wire codec              *)
(* (dns_name.rs, dns_type.rs, dns_class.rs, dns_op_code.rs,                *)
(* dns_response_code.rs, dns_message_header.rs, dns_question.rs,           *)
(* dns_record.rs, dns_message.rs), the request processor and the UDP       *)
(* serving loop (server.rs).                                               *)
(*                                                                         *)
(* Bytes are integers 0..255.  A String is the sequence of its bytes.  A   *)
(* FixedBuf that is being read is a pair (d, p): the bytes d that were     *)
(* written to it and the number p of bytes already consumed.  A FixedBuf   *)
(* that is being written is the sequence of bytes written so far together  *)
(* with its capacity cap.  A Result is a record with a field ok; readers   *)
(* also return the cursor pos they stopped at, on Ok and on Err alike.     *)
(***************************************************************************)
EXTENDS Integers, Sequences, FiniteSets, TLC

VARIABLES
    \* ---- serve_udp (server.rs:62-120) ----
    pc,          \* position of serve_udp
    revoked,     \* permit.is_revoked()
    buf,         \* the bytes of the datagram just received
    addr,        \* the source address of the datagram just received
    out,         \* the buffer returned by process_datagram
    result,      \* what serve_udp returned: "none" while it runs
    cause,       \* which statement made serve_udp return
    trace,       \* the calls made in the current loop iteration, in order
    lastErr,     \* the error most recently logged at server.rs:101
    received,    \* datagrams received so far
    admitted,    \* datagrams admitted by the rate limiter so far
    sent,        \* datagrams sent so far
    lateRecv,    \* receive calls completed after the permit was revoked
    revokedAt,   \* the position of serve_udp when the permit was revoked
    \* ---- pure functions applied to a drawn input ----
    phase,       \* which function was applied last
    m,           \* the drawn DnsMessage
    resp,        \* process_request(m)
    wire,        \* DnsMessage::write(m)
    back,        \* DnsMessage::read of the bytes in wire
    dgout,       \* process_datagram of the bytes in wire
    \* ---- functions of the codec applied to a drawn value ----
    stage,       \* which function was applied last
    kind,        \* the type the drawn value belongs to
    arg,         \* the drawn value
    other,       \* a second drawn value
    once,        \* the result of the first function applied
    twice        \* the result of the second function applied

serveVars == <<pc, revoked, buf, addr, out, result, cause, trace, lastErr,
               received, admitted, sent, lateRecv, revokedAt>>
pureVars == <<phase, m, resp, wire, back, dgout>>
unitVars == <<stage, kind, arg, other, once, twice>>
vars == <<serveVars, pureVars, unitVars>>

----------------------------------------------------------------------------
(* Program constants *)

MaxLabelLen == 63
MaxLabels == 63
MaxNameLen == 255
BufSize == 512
NameBufSize == 256
TtlSeconds == 300

(* Bounds of the model *)

MaxRecv == 2
MaxExtraQuestions == 1
MaxTextLen == 4
MaxAdditional == 2
MaxRdLength == 18

----------------------------------------------------------------------------
(* ASCII *)

Dot == 46
Hyphen == 45

Min(a, b) == IF a < b THEN a ELSE b

is_ascii_lowercase(b) == b >= 97 /\ b <= 122
is_ascii_uppercase(b) == b >= 65 /\ b <= 90
is_ascii_digit(b) == b >= 48 /\ b <= 57

to_ascii_lowercase(s) ==
    [i \in 1..Len(s) |-> IF is_ascii_uppercase(s[i]) THEN s[i] + 32 ELSE s[i]]

\* str::split('.'): the pieces between the separators, empty pieces included.
\* The pieces are those before and those after any one separator; the one
\* nearest to the middle is taken.
Distance(i, s) == IF 2 * i > Len(s) THEN 2 * i - Len(s) ELSE Len(s) - 2 * i
RECURSIVE split(_)
split(s) ==
    LET dots == {i \in 1..Len(s) : s[i] = Dot}
    IN IF dots = {} THEN <<s>>
       ELSE LET i == CHOOSE k \in dots :
                         \A j \in dots : Distance(k, s) <= Distance(j, s)
            IN split(SubSeq(s, 1, i-1)) \o split(SubSeq(s, i+1, Len(s)))

\* str::strip_suffix('.').unwrap_or(value)
strip_suffix(s) ==
    IF Len(s) > 0 /\ s[Len(s)] = Dot THEN SubSeq(s, 1, Len(s)-1) ELSE s

----------------------------------------------------------------------------
(* lib.rs: reading from and writing to a FixedBuf *)

Ok(v, p) == [ok |-> TRUE, val |-> v, pos |-> p, err |-> "none"]
Err(e, p) == [ok |-> FALSE, val |-> <<>>, pos |-> p, err |-> e]

\* the bytes written so far, or the error that stopped the writing
WOk(o) == [ok |-> TRUE, out |-> o, err |-> "none"]
WErr(e) == [ok |-> FALSE, out |-> <<>>, err |-> e]

\* rest(v), with v evaluated once, before rest
Let(v, rest(_)) == CHOOSE r \in {rest(x) : x \in {v}} : TRUE

\* the ? operator: an Err is returned, an Ok is handed to the rest
Try(r, rest(_)) == Let(r, LAMBDA x : IF x.ok THEN rest(x) ELSE x)

\* The state of a loop that reads: while next holds, res is Ok of the value
\* gathered so far, with the cursor; then res is what the loop returned.
Looping(v, p) == [next |-> TRUE, res |-> Ok(v, p)]
Returned(r) == [next |-> FALSE, res |-> r]

\* At most n turns of a loop from the state st, turn(st) being the state one
\* turn leaves; a turn that returns ends the loop.  The first half of the
\* turns is made, then the second half.
RECURSIVE Turns(_, _, _)
Turns(turn(_), st, n) ==
    IF n = 0 \/ ~st.next THEN st
    ELSE IF n = 1 THEN turn(st)
    ELSE Let(Turns(turn, st, n \div 2), LAMBDA half :
             IF ~half.next THEN half
             ELSE Turns(turn, half, n - (n \div 2)))

\* The items lo..hi of items are written in order by write, up to the first
\* that fails: the first half of them, then the second half.
RECURSIVE write_each(_, _, _, _, _, _)
write_each(write(_, _, _), items, lo, hi, w, cap) ==
    Try(w, LAMBDA x :
        IF lo > hi THEN x
        ELSE IF lo = hi THEN write(items[lo], x, cap)
        ELSE write_each(write, items, (lo + hi) \div 2 + 1, hi,
                        write_each(write, items, lo, (lo + hi) \div 2, x, cap),
                        cap))

readable(d, p) == Len(d) - p

read_u8(d, p) ==
    IF readable(d, p) < 1 THEN Err("Truncated", p) ELSE Ok(d[p+1], p+1)

read_exact(d, p, n) ==
    IF readable(d, p) < n THEN Err("Truncated", p)
    ELSE Ok(SubSeq(d, p+1, p+n), p+n)

read_u16_be(d, p) ==
    LET r == read_exact(d, p, 2)
    IN IF r.ok THEN Ok(r.val[1] * 256 + r.val[2], r.pos) ELSE r

read_u32_be(d, p) ==
    LET r == read_exact(d, p, 4)
    IN IF r.ok
       THEN Ok(((r.val[1] * 256 + r.val[2]) * 256 + r.val[3]) * 256 + r.val[4],
               r.pos)
       ELSE r

\* FixedBuf::write_bytes: all of the bytes or none
write_bytes(w, cap, bytes) ==
    Try(w, LAMBDA x :
        IF Len(x.out) + Len(bytes) > cap THEN WErr("ResponseBufferFull")
        ELSE WOk(x.out \o bytes))

u16_to_be_bytes(v) == <<(v \div 256) % 256, v % 256>>

write_u16_be(w, cap, v) == write_bytes(w, cap, u16_to_be_bytes(v))

write_u32_be(w, cap, v) ==
    write_bytes(w, cap, <<(v \div 16777216) % 256, (v \div 65536) % 256,
                          (v \div 256) % 256, v % 256>>)

----------------------------------------------------------------------------
(* dns_name.rs.  A DnsName is the String it wraps. *)

is_letter(b) == is_ascii_lowercase(b) \/ is_ascii_uppercase(b)
is_letter_digit(b) == is_letter(b) \/ is_ascii_digit(b)
is_letter_digit_hyphen(b) == is_letter_digit(b) \/ b = Hyphen

\* is_valid_label with the length test off by one
is_valid_label_up_to_64(label) ==
    IF Len(label) = 0 \/ Len(label) > MaxLabelLen + 1 THEN FALSE
    ELSE /\ is_letter(label[1])
         /\ \A i \in 1..Len(label) : is_letter_digit_hyphen(label[i])
         /\ is_letter_digit(label[Len(label)])

is_valid_label(label) ==
    IF Len(label) = 0 \/ Len(label) > MaxLabelLen THEN FALSE
    ELSE /\ is_letter(label[1])
         /\ \A i \in 1..Len(label) : is_letter_digit_hyphen(label[i])
         /\ is_letter_digit(label[Len(label)])

is_valid_name(value) ==
    IF ~(\A i \in 1..Len(value) : value[i] < 128) THEN FALSE
    ELSE LET labels == split(value)
         IN \A i \in 1..Len(labels) : is_valid_label(labels[i])

\* DnsName::new without to_ascii_lowercase
DnsName_new_keeping_case(value) ==
    LET trimmed == strip_suffix(value)
    IN IF Len(trimmed) > MaxNameLen \/ ~is_valid_name(trimmed)
       THEN [ok |-> FALSE, val |-> <<>>]
       ELSE [ok |-> TRUE, val |-> trimmed]

DnsName_new(value) ==
    LET trimmed == strip_suffix(value)
    IN IF Len(trimmed) > MaxNameLen \/ ~is_valid_name(trimmed)
       THEN [ok |-> FALSE, val |-> <<>>]
       ELSE [ok |-> TRUE, val |-> to_ascii_lowercase(trimmed)]

\* a turn of DnsName::read that takes a length byte with its two top bits
\* set for the two bytes of a pointer, and ends the name there
DnsName_read_turn_ending_at_pointer(d, p, value) ==
    LET r == read_u8(d, p)
        len == r.val
        label == SubSeq(d, r.pos + 1, r.pos + len)
    IN CASE ~r.ok -> Returned(r)
         [] r.ok /\ len = 0 ->
                IF Len(value) > MaxNameLen
                THEN Returned(Err("NameTooLong", r.pos))
                ELSE Returned(Ok(value, r.pos))
         [] r.ok /\ len >= 192 ->
                IF readable(d, r.pos) < 1
                THEN Returned(Err("Truncated", r.pos))
                ELSE Returned(Ok(value, r.pos + 1))
         [] r.ok /\ len # 0 /\ len < 192 /\ readable(d, r.pos) < len ->
                Returned(Err("Truncated", r.pos))
         [] r.ok /\ len # 0 /\ len < 192 /\ readable(d, r.pos) >= len ->
                IF ~is_valid_label(label)
                THEN Returned(Err("InvalidLabel", r.pos + len))
                ELSE Looping(IF Len(value) = 0 THEN label
                             ELSE value \o <<Dot>> \o label, r.pos + len)

\* One turn of the loop of DnsName::read, from the cursor p with the labels
\* read so far in value.  A label that is not UTF-8 holds a byte above 127,
\* which is_valid_label refuses too, so both refusals are the one
\* InvalidLabel.
DnsName_read_turn(d, p, value) ==
    LET r == read_u8(d, p)
        len == r.val
        label == SubSeq(d, r.pos + 1, r.pos + len)
    IN CASE ~r.ok -> Returned(r)
         [] r.ok /\ len = 0 ->
                IF Len(value) > MaxNameLen
                THEN Returned(Err("NameTooLong", r.pos))
                ELSE Returned(Ok(value, r.pos))
         [] r.ok /\ len # 0 /\ readable(d, r.pos) < len ->
                Returned(Err("Truncated", r.pos))
         [] r.ok /\ len # 0 /\ readable(d, r.pos) >= len ->
                IF ~is_valid_label(label)
                THEN Returned(Err("InvalidLabel", r.pos + len))
                ELSE Looping(IF Len(value) = 0 THEN label
                             ELSE value \o <<Dot>> \o label, r.pos + len)

\* for _ in 0..63, and the Err after the loop
DnsName_read(d, p) ==
    Let(Turns(LAMBDA s : DnsName_read_turn(d, s.res.pos, s.res.val),
              Looping(<<>>, p), MaxLabels),
        LAMBDA st : IF st.next THEN Err("TooManyLabels", st.res.pos)
                    ELSE st.res)

\* the body of the loop of DnsName::write
DnsName_write_label(label, w, cap) ==
    IF Len(label) > MaxLabelLen THEN WErr("Unreachable")
    ELSE write_bytes(write_bytes(w, cap, <<Len(label)>>), cap, label)

DnsName_write(name, w, cap) ==
    Try(w, LAMBDA x :
        Let(split(name), LAMBDA labels :
            write_bytes(write_each(DnsName_write_label, labels, 1,
                                   Len(labels), x, cap),
                        cap, <<0>>)))

DnsName_as_bytes(name) == DnsName_write(name, WOk(<<>>), NameBufSize)

----------------------------------------------------------------------------
(* The open enumerations.  A value is [tag, n]; n is the payload of the    *)
(* Unknown / Reserved variant and 0 in the named variants.                 *)

Variant(t) == [tag |-> t, n |-> 0]
Carrying(t, v) == [tag |-> t, n |-> v]

\* dns_op_code.rs
DnsOpCode_new(value) ==
    CASE value = 0 -> Variant("Query")
      [] value = 1 -> Variant("InverseQuery")
      [] value = 2 -> Variant("Status")
      [] OTHER -> Carrying("Reserved", value)

DnsOpCode_num(v) ==
    CASE v.tag = "Query" -> 0
      [] v.tag = "InverseQuery" -> 1
      [] v.tag = "Status" -> 2
      [] OTHER -> v.n

\* dns_response_code.rs
DnsResponseCode_new(value) ==
    CASE value = 0 -> Variant("NoError")
      [] value = 1 -> Variant("FormatError")
      [] value = 2 -> Variant("ServerFailure")
      [] value = 3 -> Variant("NameError")
      [] value = 4 -> Variant("NotImplemented")
      [] value = 5 -> Variant("Refused")
      [] OTHER -> Carrying("Reserved", value)

DnsResponseCode_num(v) ==
    CASE v.tag = "NoError" -> 0
      [] v.tag = "FormatError" -> 1
      [] v.tag = "ServerFailure" -> 2
      [] v.tag = "NameError" -> 3
      [] v.tag = "NotImplemented" -> 4
      [] v.tag = "Refused" -> 5
      [] OTHER -> v.n

\* dns_class.rs
DnsClass_new(value) ==
    CASE value = 1 -> Variant("Internet")
      [] value = 255 -> Variant("Any")
      [] OTHER -> Carrying("Unknown", value)

DnsClass_num(v) ==
    CASE v.tag = "Internet" -> 1
      [] v.tag = "Any" -> 255
      [] OTHER -> v.n

DnsClass_read(d, p) ==
    LET r == read_u16_be(d, p)
    IN IF r.ok THEN Ok(DnsClass_new(r.val), r.pos) ELSE r

DnsClass_write(v, w, cap) == write_u16_be(w, cap, DnsClass_num(v))

\* dns_type.rs
DnsType_new(value) ==
    CASE value = 1 -> Variant("A")
      [] value = 28 -> Variant("AAAA")
      [] value = 5 -> Variant("CNAME")
      [] value = 15 -> Variant("MX")
      [] value = 2 -> Variant("NS")
      [] value = 12 -> Variant("PTR")
      [] value = 6 -> Variant("SOA")
      [] value = 16 -> Variant("TXT")
      [] value = 255 -> Variant("ANY")
      [] OTHER -> Carrying("Unknown", value)

\* num with the TXT arm giving the number of the MX arm
DnsType_num_txt_as_mx(v) ==
    CASE v.tag = "A" -> 1
      [] v.tag = "AAAA" -> 28
      [] v.tag = "CNAME" -> 5
      [] v.tag = "MX" -> 15
      [] v.tag = "NS" -> 2
      [] v.tag = "PTR" -> 12
      [] v.tag = "SOA" -> 6
      [] v.tag = "TXT" -> 15
      [] v.tag = "ANY" -> 255
      [] OTHER -> v.n

DnsType_num(v) ==
    CASE v.tag = "A" -> 1
      [] v.tag = "AAAA" -> 28
      [] v.tag = "CNAME" -> 5
      [] v.tag = "MX" -> 15
      [] v.tag = "NS" -> 2
      [] v.tag = "PTR" -> 12
      [] v.tag = "SOA" -> 6
      [] v.tag = "TXT" -> 16
      [] v.tag = "ANY" -> 255
      [] OTHER -> v.n

DnsType_read(d, p) ==
    LET r == read_u16_be(d, p)
    IN IF r.ok THEN Ok(DnsType_new(r.val), r.pos) ELSE r

DnsType_write(v, w, cap) == write_u16_be(w, cap, DnsType_num(v))

----------------------------------------------------------------------------
(* dns_message_header.rs *)

\* u8 arithmetic: bit i of x, x << k with the high bits lost, and a | b
Bit(x, i) == (x \div (2^i)) % 2
Shl8(x, k) == (x * (2^k)) % 256
Or8(a, b) ==
    LET f[i \in 0..8] ==
            IF i = 8 THEN 0
            ELSE (IF Bit(a, i) = 1 \/ Bit(b, i) = 1 THEN 2^i ELSE 0) + f[i+1]
    IN f[0]
FromBool(x) == IF x THEN 1 ELSE 0

DnsMessageHeader_read(d, p) ==
    Try(read_u16_be(d, p), LAMBDA id :
    Try(read_u8(d, id.pos), LAMBDA b1 :
    Try(read_u8(d, b1.pos), LAMBDA b2 :
    Try(read_u16_be(d, b2.pos), LAMBDA qc :
    Try(read_u16_be(d, qc.pos), LAMBDA ac :
    Try(read_u16_be(d, ac.pos), LAMBDA nc :
    Try(read_u16_be(d, nc.pos), LAMBDA xc :
    Ok([id |-> id.val,
        is_response |-> (b1.val \div 128) = 1,
        op_code |-> DnsOpCode_new((b1.val \div 8) % 16),
        authoritative_answer |-> ((b1.val \div 4) % 2) = 1,
        truncated |-> ((b1.val \div 2) % 2) = 1,
        recursion_desired |-> (b1.val % 2) = 1,
        recursion_available |-> (b2.val \div 128) = 1,
        response_code |-> DnsResponseCode_new(b2.val % 16),
        question_count |-> qc.val,
        answer_count |-> ac.val,
        name_server_count |-> nc.val,
        additional_count |-> xc.val], xc.pos))))))))

DnsMessageHeader_write(h, w, cap) ==
    LET b1 == Or8(Or8(Or8(Or8(Shl8(FromBool(h.is_response), 7),
                              Shl8(DnsOpCode_num(h.op_code), 3)),
                          Shl8(FromBool(h.authoritative_answer), 2)),
                      Shl8(FromBool(h.truncated), 1)),
                  FromBool(h.recursion_desired))
        b2 == Or8(Shl8(FromBool(h.recursion_available), 7),
                  DnsResponseCode_num(h.response_code))
    IN write_u16_be(
         write_u16_be(
           write_u16_be(
             write_u16_be(
               write_bytes(
                 write_bytes(
                   write_bytes(w, cap, u16_to_be_bytes(h.id)),
                   cap, <<b1>>),
                 cap, <<b2>>),
               cap, h.question_count),
             cap, h.answer_count),
           cap, h.name_server_count),
         cap, h.additional_count)

----------------------------------------------------------------------------
(* dns_question.rs *)

\* DnsQuestion::read without the test of the class
DnsQuestion_read_any_class(d, p) ==
    Try(DnsName_read(d, p), LAMBDA name :
    Try(DnsType_read(d, name.pos), LAMBDA typ :
    Try(DnsClass_read(d, typ.pos), LAMBDA class :
    Ok([name |-> name.val, typ |-> typ.val, class |-> class.val],
       class.pos))))

DnsQuestion_read(d, p) ==
    Try(DnsName_read(d, p), LAMBDA name :
    Try(DnsType_read(d, name.pos), LAMBDA typ :
    Try(DnsClass_read(d, typ.pos), LAMBDA class :
    IF class.val # Variant("Internet") /\ class.val # Variant("Any")
    THEN Err("InvalidClass", class.pos)
    ELSE Ok([name |-> name.val, typ |-> typ.val, class |-> class.val],
            class.pos))))

DnsQuestion_write(q, w, cap) ==
    DnsClass_write(q.class,
        DnsType_write(q.typ, DnsName_write(q.name, w, cap), cap), cap)

----------------------------------------------------------------------------
(* dns_record.rs.  A DnsRecord is [kind, name, addr, target, typ]: addr is *)
(* the octets of an A or AAAA record, target the DnsName of a CNAME        *)
(* record, typ the DnsType of an Unknown record; the fields a variant does *)
(* not have are empty.                                                     *)

NoType == Variant("none")
DnsRecord_A(name, octets) ==
    [kind |-> "A", name |-> name, addr |-> octets, target |-> <<>>,
     typ |-> NoType]
DnsRecord_AAAA(name, octets) ==
    [kind |-> "AAAA", name |-> name, addr |-> octets, target |-> <<>>,
     typ |-> NoType]
DnsRecord_CNAME(name, target) ==
    [kind |-> "CNAME", name |-> name, addr |-> <<>>, target |-> target,
     typ |-> NoType]
DnsRecord_Unknown(name, typ) ==
    [kind |-> "Unknown", name |-> name, addr |-> <<>>, target |-> <<>>,
     typ |-> typ]

\* the constructors take the address already parsed by std::net
DnsRecord_new_a(name, octets) ==
    LET n == DnsName_new(name)
    IN IF n.ok THEN [ok |-> TRUE, val |-> DnsRecord_A(n.val, octets)] ELSE n

DnsRecord_new_aaaa(name, octets) ==
    LET n == DnsName_new(name)
    IN IF n.ok THEN [ok |-> TRUE, val |-> DnsRecord_AAAA(n.val, octets)] ELSE n

DnsRecord_new_cname(name, target) ==
    LET n == DnsName_new(name)
        t == DnsName_new(target)
    IN IF ~n.ok THEN n
       ELSE IF ~t.ok THEN t
       ELSE [ok |-> TRUE, val |-> DnsRecord_CNAME(n.val, t.val)]

DnsRecord_name(r) == r.name

DnsRecord_typ(r) ==
    CASE r.kind = "A" -> Variant("A")
      [] r.kind = "AAAA" -> Variant("AAAA")
      [] r.kind = "CNAME" -> Variant("CNAME")
      [] OTHER -> Carrying("Unknown", DnsType_num(r.typ))

\* read_rdata that reads RDLENGTH and leaves the cursor before the RDATA
DnsRecord_read_rdata_not_consumed(d, p) ==
    LET len == read_u16_be(d, p) IN
    IF ~len.ok THEN len
    ELSE IF readable(d, len.pos) < len.val THEN Err("Truncated", len.pos)
    ELSE Ok(SubSeq(d, len.pos + 1, len.pos + len.val), len.pos)

\* Ok(rdata, pos): the RDATA bytes, copied to a buffer of their own
DnsRecord_read_rdata(d, p) ==
    LET len == read_u16_be(d, p) IN
    IF ~len.ok THEN len
    ELSE IF readable(d, len.pos) < len.val THEN Err("Truncated", len.pos)
    ELSE Ok(SubSeq(d, len.pos + 1, len.pos + len.val), len.pos + len.val)

\* write_rdata with RDLENGTH counting its own two bytes
DnsRecord_write_rdata_counting_length(bytes, w, cap) ==
    IF Len(bytes) > 65535 THEN WErr("Unreachable")
    ELSE write_bytes(write_u16_be(w, cap, Len(bytes) + 2), cap, bytes)

DnsRecord_write_rdata(bytes, w, cap) ==
    IF Len(bytes) > 65535 THEN WErr("Unreachable")
    ELSE write_bytes(write_u16_be(w, cap, Len(bytes)), cap, bytes)

\* the payload of a record of type typ, read from the buffer rdata
DnsRecord_read_payload(name, typ, rdata) ==
    CASE typ.tag = "A" ->
            Try(read_exact(rdata, 0, 4), LAMBDA octets :
                Ok(DnsRecord_A(name, octets.val), 0))
      [] typ.tag = "AAAA" ->
            Try(read_exact(rdata, 0, 16), LAMBDA octets :
                Ok(DnsRecord_AAAA(name, octets.val), 0))
      [] typ.tag = "CNAME" ->
            Try(DnsName_read(rdata, 0), LAMBDA target :
                Ok(DnsRecord_CNAME(name, target.val), 0))
      [] OTHER -> Ok(DnsRecord_Unknown(name, typ), 0)

DnsRecord_read(d, p) ==
    Try(DnsName_read(d, p), LAMBDA name :
    Try(DnsType_read(d, name.pos), LAMBDA typ :
    Try(DnsClass_read(d, typ.pos), LAMBDA class :
    IF class.val # Variant("Internet") /\ class.val # Variant("Any")
    THEN Err("InvalidClass", class.pos) ELSE
    Try(read_u32_be(d, class.pos), LAMBDA ttl :
    Try(DnsRecord_read_rdata(d, ttl.pos), LAMBDA rdata :
    [DnsRecord_read_payload(name.val, typ.val, rdata.val)
        EXCEPT !.pos = rdata.pos])))))

DnsRecord_write(r, w, cap) ==
    Try(write_u32_be(
            DnsClass_write(Variant("Internet"),
                DnsType_write(DnsRecord_typ(r),
                    DnsName_write(DnsRecord_name(r), w, cap), cap), cap),
            cap, TtlSeconds),
        LAMBDA x :
            CASE r.kind = "A" -> DnsRecord_write_rdata(r.addr, x, cap)
              [] r.kind = "AAAA" -> DnsRecord_write_rdata(r.addr, x, cap)
              [] r.kind = "CNAME" ->
                    Try(DnsName_as_bytes(r.target), LAMBDA t :
                        DnsRecord_write_rdata(t.out, x, cap))
              [] OTHER -> WErr("Internal"))

----------------------------------------------------------------------------
(* dns_message.rs *)

\* the three loops of DnsMessage::read that stop at the first Err
read_questions(d, p, n) ==
    Turns(LAMBDA s : Let(DnsQuestion_read(d, s.res.pos), LAMBDA r :
                         IF r.ok
                         THEN Looping(Append(s.res.val, r.val), r.pos)
                         ELSE Returned(r)),
          Looping(<<>>, p), n).res

read_records(d, p, n) ==
    Turns(LAMBDA s : Let(DnsRecord_read(d, s.res.pos), LAMBDA r :
                         IF r.ok
                         THEN Looping(Append(s.res.val, r.val), r.pos)
                         ELSE Returned(r)),
          Looping(<<>>, p), n).res

\* the loop that leaves out an additional record that does not decode; the
\* cursor stays where its decoding stopped
read_additional(d, p, n) ==
    Turns(LAMBDA s : Let(DnsRecord_read(d, s.res.pos), LAMBDA r :
                         Looping(IF r.ok THEN Append(s.res.val, r.val)
                                 ELSE s.res.val, r.pos)),
          Looping(<<>>, p), n).res

DnsMessage_read(d) ==
    Try(DnsMessageHeader_read(d, 0), LAMBDA header :
    Try(read_questions(d, header.pos, header.val.question_count),
        LAMBDA questions :
    Try(read_records(d, questions.pos, header.val.answer_count),
        LAMBDA answers :
    Try(read_records(d, answers.pos, header.val.name_server_count),
        LAMBDA name_servers :
    Try(read_additional(d, name_servers.pos, header.val.additional_count),
        LAMBDA additional :
    Ok([header |-> header.val,
        questions |-> questions.val,
        answers |-> answers.val,
        name_servers |-> name_servers.val,
        additional |-> additional.val], additional.pos))))))

DnsMessage_write(msg, cap) ==
    Let(msg.answers \o msg.name_servers \o msg.additional, LAMBDA records :
        write_each(DnsRecord_write, records, 1, Len(records),
            write_each(DnsQuestion_write, msg.questions, 1,
                       Len(msg.questions),
                       DnsMessageHeader_write(msg.header, WOk(<<>>), cap),
                       cap),
            cap))

MOk(v) == [ok |-> TRUE, val |-> v, err |-> "none"]
MErr(e) == [ok |-> FALSE, val |-> <<>>, err |-> e]

question_count(msg) ==
    IF Len(msg.questions) > 65535 THEN MErr("TooManyQuestions")
    ELSE MOk(Len(msg.questions))

\* answer_response with the header taken over from the request: only QR and
\* the answer count are set
answer_response_keeping_flags(msg, answers) ==
    IF Len(answers) > 65535 THEN MErr("TooManyAnswers")
    ELSE MOk([header |-> [msg.header EXCEPT !.is_response = TRUE,
                                            !.answer_count = Len(answers)],
              questions |-> msg.questions,
              answers |-> answers,
              name_servers |-> <<>>,
              additional |-> <<>>])

answer_response(msg, answers) ==
    IF Len(answers) > 65535 THEN MErr("TooManyAnswers")
    ELSE IF ~question_count(msg).ok THEN question_count(msg)
    ELSE MOk([header |-> [id |-> msg.header.id,
                          is_response |-> TRUE,
                          op_code |-> msg.header.op_code,
                          authoritative_answer |-> TRUE,
                          truncated |-> FALSE,
                          recursion_desired |-> msg.header.recursion_desired,
                          recursion_available |-> FALSE,
                          response_code |-> Variant("NoError"),
                          question_count |-> question_count(msg).val,
                          answer_count |-> Len(answers),
                          name_server_count |-> 0,
                          additional_count |-> 0],
              questions |-> msg.questions,
              answers |-> answers,
              name_servers |-> <<>>,
              additional |-> <<>>])

error_response(msg, response_code) ==
    IF ~question_count(msg).ok THEN question_count(msg)
    ELSE MOk([header |-> [id |-> msg.header.id,
                          is_response |-> TRUE,
                          op_code |-> msg.header.op_code,
                          authoritative_answer |-> TRUE,
                          truncated |-> FALSE,
                          recursion_desired |-> msg.header.recursion_desired,
                          recursion_available |-> FALSE,
                          response_code |-> response_code,
                          question_count |-> question_count(msg).val,
                          answer_count |-> 0,
                          name_server_count |-> 0,
                          additional_count |-> 0],
              questions |-> msg.questions,
              answers |-> <<>>,
              name_servers |-> <<>>,
              additional |-> <<>>])

----------------------------------------------------------------------------
(* server.rs: process_request and process_datagram.  The MultiMap is the   *)
(* sequence of the records in insertion order: a name is a key when a      *)
(* record has it, and get_vec gives the records of the name in that order. *)

contains_key(name_to_records, name) ==
    \E i \in 1..Len(name_to_records) :
        DnsRecord_name(name_to_records[i]) = name

get_vec(name_to_records, name) ==
    SelectSeq(name_to_records, LAMBDA r : DnsRecord_name(r) = name)

\* process_request giving NotFound when no record of the name has the type
process_request_empty_not_found(name_to_records, request) ==
    IF request.header.is_response THEN MErr("NotARequest")
    ELSE IF request.header.op_code # Variant("Query")
    THEN MErr("InvalidOpCode")
    ELSE IF Len(request.questions) = 0 THEN MErr("NoQuestion")
    ELSE LET question == request.questions[1]
             records == SelectSeq(name_to_records,
                 LAMBDA r : /\ DnsRecord_name(r) = question.name
                            /\ \/ question.typ = Variant("ANY")
                               \/ DnsRecord_typ(r) = question.typ)
         IN IF Len(records) = 0 THEN MErr("NotFound")
            ELSE answer_response(request, records)

\* process_request testing the opcode before the QR bit
process_request_opcode_first(name_to_records, request) ==
    IF request.header.op_code # Variant("Query") THEN MErr("InvalidOpCode")
    ELSE IF request.header.is_response THEN MErr("NotARequest")
    ELSE IF Len(request.questions) = 0 THEN MErr("NoQuestion")
    ELSE LET question == request.questions[1] IN
         IF ~contains_key(name_to_records, question.name)
         THEN MErr("NotFound")
         ELSE LET records == get_vec(name_to_records, question.name) IN
              IF question.typ = Variant("ANY")
              THEN answer_response(request, records)
              ELSE answer_response(request,
                      SelectSeq(records,
                          LAMBDA r : DnsRecord_typ(r) = question.typ))

\* process_request answering the last question of the request
process_request_last_question(name_to_records, request) ==
    IF request.header.is_response THEN MErr("NotARequest")
    ELSE IF request.header.op_code # Variant("Query")
    THEN MErr("InvalidOpCode")
    ELSE IF Len(request.questions) = 0 THEN MErr("NoQuestion")
    ELSE LET question == request.questions[Len(request.questions)] IN
         IF ~contains_key(name_to_records, question.name)
         THEN MErr("NotFound")
         ELSE LET records == get_vec(name_to_records, question.name) IN
              IF question.typ = Variant("ANY")
              THEN answer_response(request, records)
              ELSE answer_response(request,
                      SelectSeq(records,
                          LAMBDA r : DnsRecord_typ(r) = question.typ))

process_request(name_to_records, request) ==
    IF request.header.is_response THEN MErr("NotARequest")
    ELSE IF request.header.op_code # Variant("Query")
    THEN MErr("InvalidOpCode")
    ELSE IF Len(request.questions) = 0 THEN MErr("NoQuestion")
    ELSE LET question == request.questions[1] IN
         IF ~contains_key(name_to_records, question.name)
         THEN MErr("NotFound")
         ELSE LET records == get_vec(name_to_records, question.name) IN
              IF question.typ = Variant("ANY")
              THEN answer_response(request, records)
              ELSE answer_response(request,
                      SelectSeq(records,
                          LAMBDA r : DnsRecord_typ(r) = question.typ))

\* process_datagram answering with the header alone, TC set, when the
\* response does not fit
process_datagram_truncating(name_to_records, bytes) ==
    Let(DnsMessage_read(bytes), LAMBDA request :
        IF ~request.ok THEN WErr(request.err)
        ELSE Let(process_request(name_to_records, request.val),
                 LAMBDA response :
                     IF ~response.ok THEN WErr(response.err)
                     ELSE IF DnsMessage_write(response.val, BufSize).ok
                     THEN DnsMessage_write(response.val, BufSize)
                     ELSE DnsMessageHeader_write(
                              [response.val.header EXCEPT
                                  !.truncated = TRUE,
                                  !.question_count = 0,
                                  !.answer_count = 0],
                              WOk(<<>>), BufSize)))

process_datagram(name_to_records, bytes) ==
    Let(DnsMessage_read(bytes), LAMBDA request :
        IF ~request.ok THEN WErr(request.err)
        ELSE Let(process_request(name_to_records, request.val),
                 LAMBDA response :
                     IF ~response.ok THEN WErr(response.err)
                     ELSE DnsMessage_write(response.val, BufSize)))

----------------------------------------------------------------------------
(* The inputs.  The zone is the one of tests/test.rs (fn example) with a   *)
(* second A record of the first name, given in upper case with a trailing  *)
(* dot, so that the order and the normalization of the table show.         *)

Join3(a, b, c) == a \o <<Dot>> \o b \o <<Dot>> \o c
LblExample == <<101, 120, 97, 109, 112, 108, 101>>
LblCom == <<99, 111, 109>>
TxtAaa == Join3(<<97, 97, 97>>, LblExample, LblCom)
TxtBbb == Join3(<<98, 98, 98>>, LblExample, LblCom)
TxtCcc == Join3(<<99, 99, 99>>, LblExample, LblCom)
TxtZzz == Join3(<<122, 122, 122>>, LblExample, LblCom)
\* "AAA.example.com" and "AAA.Example.COM."
TxtUpper == Join3(<<65, 65, 65>>, LblExample, LblCom)
TxtMixedDot == Join3(<<65, 65, 65>>, <<69>> \o Tail(LblExample), <<67, 79, 77>>)
                   \o <<Dot>>
\* k one-letter labels: "a.a. ... .a"
Labels(k) == [i \in 1..(2*k - 1) |-> IF i % 2 = 1 THEN 97 ELSE Dot]

Ipv4First == <<10, 0, 0, 1>>
Ipv4Second == <<10, 0, 0, 2>>
Ipv6First == <<38, 6, 40, 0, 2, 32, 0, 1, 2, 72, 24, 147, 37, 200, 25, 70>>

\* the records handed to serve_udp, and the MultiMap collected from them
Records ==
    << DnsRecord_new_a(TxtAaa, Ipv4First).val,
       DnsRecord_new_aaaa(TxtAaa, Ipv6First).val,
       DnsRecord_new_cname(TxtBbb, TxtCcc).val,
       DnsRecord_new_a(TxtMixedDot, Ipv4Second).val >>

NameToRecords == Records

Question(name, typ, class) == [name |-> name, typ |-> typ, class |-> class]

\* the names a question can carry: three built by DnsName::new, and one, in
\* upper case, that only DnsName::read builds
QuestionNames == {TxtAaa, TxtBbb, TxtZzz, TxtUpper}
QuestionTypes == {Variant("A"), Variant("AAAA"), Variant("CNAME"),
                  Variant("MX"), Variant("ANY")}

FirstQuestions ==
    {Question(n, t, Variant("Internet")) : n \in QuestionNames,
                                           t \in QuestionTypes}
    \cup {Question(TxtAaa, Variant("A"), Variant("Any"))}

LaterQuestions ==
    {Question(TxtZzz, Variant("A"), Variant("Internet")),
     Question(TxtBbb, Variant("CNAME"), Variant("Internet"))}

RECURSIVE SeqsUpTo(_, _)
SeqsUpTo(S, n) ==
    IF n = 0 THEN {<<>>}
    ELSE LET shorter == SeqsUpTo(S, n - 1)
         IN shorter \cup {Append(q, x) : q \in shorter, x \in S}

QuestionLists ==
    {<<>>} \cup {<<q>> \o later : q \in FirstQuestions,
                                  later \in SeqsUpTo(LaterQuestions,
                                                     MaxExtraQuestions)}

Header(id, qr, op, aa, tc, rd, ra, rc, qc, ac, nc, xc) ==
    [id |-> id, is_response |-> qr, op_code |-> op,
     authoritative_answer |-> aa, truncated |-> tc,
     recursion_desired |-> rd, recursion_available |-> ra,
     response_code |-> rc, question_count |-> qc, answer_count |-> ac,
     name_server_count |-> nc, additional_count |-> xc]

Message(h, qs, an, ns, ad) ==
    [header |-> h, questions |-> qs, answers |-> an, name_servers |-> ns,
     additional |-> ad]

TestId == 39578

\* a request: any QR, opcode Query or Status, any RD, the other flags all
\* clear or all set
Requests ==
    {Message(Header(TestId, qr, op, fl, fl, rd, fl, Variant("NoError"),
                    Len(qs), 0, 0, 0), qs, <<>>, <<>>, <<>>) :
        qr \in BOOLEAN, op \in {Variant("Query"), Variant("Status")},
        fl \in BOOLEAN, rd \in BOOLEAN, qs \in QuestionLists}

\* the responses process_request gives to the requests
Responses ==
    {process_request(NameToRecords, r).val :
        r \in {q \in Requests : process_request(NameToRecords, q).ok}}

\* messages with records in all three sections, with a name of 62 and of 63
\* labels, and with a record DnsRecord::write refuses
FullMessage(name) ==
    Message(Header(7, TRUE, Variant("Query"), TRUE, FALSE, TRUE, TRUE,
                   Variant("NameError"), 1, 1, 1, 2),
            <<Question(name, Variant("ANY"), Variant("Any"))>>,
            <<DnsRecord_A(name, Ipv4First)>>,
            <<DnsRecord_CNAME(name, TxtCcc)>>,
            <<DnsRecord_AAAA(TxtCcc, Ipv6First), DnsRecord_A(TxtCcc, Ipv4Second)>>)

UnknownMessage ==
    Message(Header(8, TRUE, Variant("Query"), TRUE, FALSE, TRUE, FALSE,
                   Variant("NoError"), 0, 1, 0, 0),
            <<>>, <<DnsRecord_Unknown(TxtAaa, Variant("MX"))>>, <<>>, <<>>)

\* a request of 507 bytes: the answer to its first question does not fit in
\* the 512 bytes of the response
LongLabel == [i \in 1..50 |-> 97]
TxtLong == Join3(LongLabel, LongLabel, LongLabel)
BigRequest ==
    Message(Header(TestId, FALSE, Variant("Query"), FALSE, FALSE, TRUE, FALSE,
                   Variant("NoError"), 4, 0, 0, 0),
            <<Question(TxtAaa, Variant("A"), Variant("Internet"))>>
            \o [i \in 1..3 |->
                    Question(TxtLong, Variant("A"), Variant("Internet"))],
            <<>>, <<>>, <<>>)

Messages ==
    Requests \cup Responses
    \cup {FullMessage(TxtAaa), FullMessage(Labels(MaxLabels - 1)),
          FullMessage(Labels(MaxLabels)), UnknownMessage, BigRequest}

\* the datagrams that reach the socket: the encodings of the requests with RD
\* set and the other flags clear (those that are rejected for their header
\* with one question only), of the 507-byte request, and two that do not
\* decode
PlainQuestion == Question(TxtAaa, Variant("A"), Variant("Internet"))
ServeRequests ==
    {r \in Requests :
        /\ r.header.recursion_desired /\ ~r.header.truncated
        /\ Len(r.questions) <= 1
        /\ (r.header.is_response \/ r.header.op_code # Variant("Query"))
              => r.questions = <<PlainQuestion>>}
    \cup {BigRequest}

Encoded(msg) == DnsMessage_write(msg, BufSize).out

Datagrams ==
    {Encoded(r) : r \in ServeRequests}
    \cup {SubSeq(Encoded(BigRequest), 1, 5),
          SubSeq(Encoded(BigRequest), 1, 20)}

Addrs == {"client1", "client2"}

\* process_datagram(&name_to_records, &mut buf) for each datagram buf can hold
Answers == [d \in Datagrams |-> process_datagram(NameToRecords, d)]

----------------------------------------------------------------------------
(* server.rs: serve_udp.  pc is the statement serve_udp is at:             *)
(*   "setup"   lines 68-74      "top"     the loop test of line 75         *)
(*   "recv"    line 81          "attempt" line 94                          *)
(*   "process" line 98          "record"  line 108                         *)
(*   "send"    line 109         "done"    serve_udp has returned           *)
(*   "panic"   the unreachable!() of line 106                              *)
(* "idle" is the position when serve_udp is not run at all.                *)

\* a call serve_udp makes: the bytes it hands over or is handed, the peer
\* address, the length given or returned, and whether the call succeeded
Call(c, bytes, a, n, ok) ==
    [call |-> c, bytes |-> bytes, addr |-> a, n |-> n, ok |-> ok]

Return(r, c) ==
    /\ pc' = "done"
    /\ result' = r
    /\ cause' = c

InitServe ==
    /\ pc = "setup"
    /\ revoked = FALSE
    /\ buf = <<>>
    /\ addr = "none"
    /\ out = <<>>
    /\ result = "none"
    /\ cause = "none"
    /\ trace = <<>>
    /\ lastErr = "none"
    /\ received = 0
    /\ admitted = 0
    /\ sent = 0
    /\ lateRecv = 0
    /\ revokedAt = "never"

IdleServe ==
    /\ pc = "idle"
    /\ revoked = FALSE
    /\ buf = <<>>
    /\ addr = "none"
    /\ out = <<>>
    /\ result = "none"
    /\ cause = "none"
    /\ trace = <<>>
    /\ lastErr = "none"
    /\ received = 0
    /\ admitted = 0
    /\ sent = 0
    /\ lateRecv = 0
    /\ revokedAt = "never"

IdlePure ==
    /\ phase = "idle"
    /\ m = <<>>
    /\ resp = <<>>
    /\ wire = <<>>
    /\ back = <<>>
    /\ dgout = <<>>

IdleUnit ==
    /\ stage = "idle"
    /\ kind = "none"
    /\ arg = <<>>
    /\ other = <<>>
    /\ once = <<>>
    /\ twice = <<>>

\* another thread revokes the permit, at any moment
Revoke ==
    /\ pc \notin {"idle", "done", "panic"}
    /\ ~revoked
    /\ revoked' = TRUE
    /\ revokedAt' = pc
    /\ UNCHANGED <<pc, buf, addr, out, result, cause, trace, lastErr,
                   received, admitted, sent, lateRecv>>
    /\ UNCHANGED <<pureVars, unitVars>>

\* set_read_timeout and local_addr succeed, the MultiMap is collected
SetupOk ==
    /\ pc = "setup"
    /\ pc' = "top"
    /\ UNCHANGED <<revoked, buf, addr, out, result, cause, trace, lastErr,
                   received, admitted, sent, lateRecv>>
    /\ UNCHANGED <<revokedAt, pureVars, unitVars>>

\* set_read_timeout or local_addr fails: the ? operators of lines 69 and 72
SetupFail ==
    /\ pc = "setup"
    /\ \E c \in {"set_read_timeout", "local_addr"} : Return("err", c)
    /\ UNCHANGED <<revoked, buf, addr, out, trace, lastErr,
                   received, admitted, sent, lateRecv>>
    /\ UNCHANGED <<revokedAt, pureVars, unitVars>>

\* while !permit.is_revoked(), the permit being revoked
LoopExit ==
    /\ pc = "top"
    /\ revoked
    /\ Return("ok", "revoked")
    /\ UNCHANGED <<revoked, buf, addr, out, trace, lastErr,
                   received, admitted, sent, lateRecv>>
    /\ UNCHANGED <<revokedAt, pureVars, unitVars>>

\* while !permit.is_revoked(), the permit not being revoked: a new iteration
\* with a new buf
LoopEnter ==
    /\ pc = "top"
    /\ ~revoked
    /\ pc' = "recv"
    /\ buf' = <<>>
    /\ trace' = <<>>
    /\ UNCHANGED <<revoked, addr, out, result, cause, lastErr,
                   received, admitted, sent, lateRecv>>
    /\ UNCHANGED <<revokedAt, pureVars, unitVars>>

CountLate == lateRecv' = IF revoked THEN Min(lateRecv + 1, 2) ELSE lateRecv

\* recv_from gives a datagram: at most the 512 bytes of buf.writable()
RecvDatagram ==
    /\ pc = "recv"
    /\ received < MaxRecv
    /\ \E d \in Datagrams, a \in Addrs :
          LET len == Min(Len(d), BufSize) IN
          /\ trace' = Append(trace, Call("recv_from", SubSeq(d, 1, len), a,
                                         len, TRUE))
          /\ IF len > BufSize
             THEN /\ pc' = "top"
                  /\ UNCHANGED <<buf, addr>>
             ELSE /\ pc' = "attempt"
                  /\ buf' = SubSeq(d, 1, len)
                  /\ addr' = a
    /\ received' = received + 1
    /\ CountLate
    /\ UNCHANGED <<revoked, out, result, cause, lastErr, admitted, sent>>
    /\ UNCHANGED <<revokedAt, pureVars, unitVars>>

\* RecvTimeout calling recv_from again without the test of the permit
RecvTimeout_retrying ==
    /\ pc = "recv"
    /\ pc' = "recv"
    /\ trace' = <<Call("recv_from", <<>>, "none", 0, FALSE)>>
    /\ CountLate
    /\ UNCHANGED <<revoked, buf, addr, out, result, cause, lastErr,
                   received, admitted, sent>>
    /\ UNCHANGED <<revokedAt, pureVars, unitVars>>

\* recv_from gives WouldBlock or TimedOut after the 500 ms
RecvTimeout ==
    /\ pc = "recv"
    /\ pc' = "top"
    /\ trace' = Append(trace, Call("recv_from", <<>>, "none", 0, FALSE))
    /\ CountLate
    /\ UNCHANGED <<revoked, buf, addr, out, result, cause, lastErr,
                   received, admitted, sent>>
    /\ UNCHANGED <<revokedAt, pureVars, unitVars>>

\* recv_from gives another error
RecvError ==
    /\ pc = "recv"
    /\ Return("err", "recv_from")
    /\ UNCHANGED <<revoked, buf, addr, out, trace, lastErr,
                   received, admitted, sent, lateRecv>>
    /\ UNCHANGED <<revokedAt, pureVars, unitVars>>

\* response_bytes_rate_limiter.attempt(now) answers true
AttemptAdmit ==
    /\ pc = "attempt"
    /\ pc' = "process"
    /\ trace' = Append(trace, Call("attempt", <<>>, "none", 0, TRUE))
    /\ admitted' = admitted + 1
    /\ UNCHANGED <<revoked, buf, addr, out, result, cause, lastErr,
                   received, sent, lateRecv>>
    /\ UNCHANGED <<revokedAt, pureVars, unitVars>>

\* AttemptRefuse with the answer of attempt ignored
AttemptRefuse_ignored ==
    /\ pc = "attempt"
    /\ pc' = "process"
    /\ trace' = Append(trace, Call("attempt", <<>>, "none", 0, FALSE))
    /\ UNCHANGED <<revoked, buf, addr, out, result, cause, lastErr,
                   received, admitted, sent, lateRecv>>
    /\ UNCHANGED <<revokedAt, pureVars, unitVars>>

\* response_bytes_rate_limiter.attempt(now) answers false
AttemptRefuse ==
    /\ pc = "attempt"
    /\ pc' = "top"
    /\ trace' = Append(trace, Call("attempt", <<>>, "none", 0, FALSE))
    /\ UNCHANGED <<revoked, buf, addr, out, result, cause, lastErr,
                   received, admitted, sent, lateRecv>>
    /\ UNCHANGED <<revokedAt, pureVars, unitVars>>

\* process_datagram gives Ok(buf)
ProcessOk ==
    /\ pc = "process"
    /\ \E r \in {Answers[buf]} :
       /\ r.ok
       /\ out' = r.out
       /\ trace' = Append(trace, Call("process_datagram", r.out, "none",
                                      Len(r.out), TRUE))
       /\ pc' = IF Len(r.out) = 0 THEN "panic" ELSE "record"
    /\ UNCHANGED <<revoked, buf, addr, result, cause, lastErr,
                   received, admitted, sent, lateRecv>>
    /\ UNCHANGED <<revokedAt, pureVars, unitVars>>

\* ProcessErr answering the bad datagram with its own first 12 bytes
ProcessErr_replying ==
    /\ pc = "process"
    /\ \E r \in {Answers[buf]} :
       /\ ~r.ok
       /\ lastErr' = r.err
       /\ trace' = Append(trace, Call("process_datagram", <<>>, "none", 0,
                                      FALSE))
    /\ out' = SubSeq(buf, 1, Min(Len(buf), 12))
    /\ pc' = "send"
    /\ UNCHANGED <<revoked, buf, addr, result, cause,
                   received, admitted, sent, lateRecv>>
    /\ UNCHANGED <<revokedAt, pureVars, unitVars>>

\* ProcessErr with the ? operator in place of the match: serve_udp returns
ProcessErr_returning ==
    /\ pc = "process"
    /\ \E r \in {Answers[buf]} :
       /\ ~r.ok
       /\ lastErr' = r.err
       /\ trace' = Append(trace, Call("process_datagram", <<>>, "none", 0,
                                      FALSE))
    /\ Return("err", "process_datagram")
    /\ UNCHANGED <<revoked, buf, addr, out,
                   received, admitted, sent, lateRecv>>
    /\ UNCHANGED <<revokedAt, pureVars, unitVars>>

\* process_datagram gives Err(e)
ProcessErr ==
    /\ pc = "process"
    /\ \E r \in {Answers[buf]} :
       /\ ~r.ok
       /\ lastErr' = r.err
       /\ trace' = Append(trace, Call("process_datagram", <<>>, "none", 0,
                                      FALSE))
    /\ pc' = "top"
    /\ UNCHANGED <<revoked, buf, addr, out, result, cause,
                   received, admitted, sent, lateRecv>>
    /\ UNCHANGED <<revokedAt, pureVars, unitVars>>

\* Record with the length of the request in place of the one of the response
Record_request_len ==
    /\ pc = "record"
    /\ pc' = "send"
    /\ trace' = Append(trace, Call("record", <<>>, "none", Len(buf), TRUE))
    /\ UNCHANGED <<revoked, buf, addr, out, result, cause, lastErr,
                   received, admitted, sent, lateRecv>>
    /\ UNCHANGED <<revokedAt, pureVars, unitVars>>

\* Record with a test of the permit before it: serve_udp returns
Record_unless_revoked ==
    /\ pc = "record"
    /\ IF revoked
       THEN /\ Return("ok", "revoked")
            /\ UNCHANGED trace
       ELSE /\ pc' = "send"
            /\ trace' = Append(trace, Call("record", <<>>, "none", Len(out),
                                           TRUE))
            /\ UNCHANGED <<result, cause>>
    /\ UNCHANGED <<revoked, buf, addr, out, lastErr,
                   received, admitted, sent, lateRecv>>
    /\ UNCHANGED <<revokedAt, pureVars, unitVars>>

\* response_bytes_rate_limiter.record(out.len())
Record ==
    /\ pc = "record"
    /\ pc' = "send"
    /\ trace' = Append(trace, Call("record", <<>>, "none", Len(out), TRUE))
    /\ UNCHANGED <<revoked, buf, addr, out, result, cause, lastErr,
                   received, admitted, sent, lateRecv>>
    /\ UNCHANGED <<revokedAt, pureVars, unitVars>>

\* send_to sends all of out
SendOk ==
    /\ pc = "send"
    /\ pc' = "top"
    /\ trace' = Append(trace, Call("send_to", out, addr, Len(out), TRUE))
    /\ sent' = sent + 1
    /\ UNCHANGED <<revoked, buf, addr, out, result, cause, lastErr,
                   received, admitted, lateRecv>>
    /\ UNCHANGED <<revokedAt, pureVars, unitVars>>

\* SendShort sending out again after a short send
SendShort_retrying ==
    /\ pc = "send"
    /\ pc' = "send"
    /\ \E n \in {0, Len(out) - 1} :
          trace' = Append(trace, Call("send_to", out, addr, n, TRUE))
    /\ sent' = sent + 1
    /\ UNCHANGED <<revoked, buf, addr, out, result, cause, lastErr,
                   received, admitted, lateRecv>>
    /\ UNCHANGED <<revokedAt, pureVars, unitVars>>

\* send_to sends less than out
SendShort ==
    /\ pc = "send"
    /\ \E n \in {0, Len(out) - 1} :
          trace' = Append(trace, Call("send_to", out, addr, n, TRUE))
    /\ Return("err", "short_send")
    /\ sent' = sent + 1
    /\ UNCHANGED <<revoked, buf, addr, out, lastErr, received, admitted,
                   lateRecv>>
    /\ UNCHANGED <<revokedAt, pureVars, unitVars>>

\* send_to gives an error
SendError ==
    /\ pc = "send"
    /\ trace' = Append(trace, Call("send_to", out, addr, 0, FALSE))
    /\ Return("err", "send_to")
    /\ UNCHANGED <<revoked, buf, addr, out, lastErr, received, admitted,
                   sent, lateRecv>>
    /\ UNCHANGED <<revokedAt, pureVars, unitVars>>

\* one step of the thread that runs serve_udp
ServeStep ==
    \/ SetupOk
    \/ SetupFail
    \/ LoopExit
    \/ LoopEnter
    \/ RecvDatagram
    \/ RecvTimeout
    \/ RecvError
    \/ AttemptAdmit
    \/ AttemptRefuse
    \/ ProcessOk
    \/ ProcessErr
    \/ Record
    \/ SendOk
    \/ SendShort
    \/ SendError

Init == InitServe /\ IdlePure /\ IdleUnit

Next == ServeStep \/ Revoke

Spec == Init /\ [][Next]_vars

\* The thread that runs serve_udp keeps running, and every call it makes
\* returns: recv_from within its read timeout of 500 ms.
FairSpec == Spec /\ WF_vars(ServeStep)

----------------------------------------------------------------------------
(* The pure functions, each applied to a drawn message. *)

InitPure ==
    /\ phase = "init"
    /\ m \in Messages
    /\ resp = <<>>
    /\ wire = <<>>
    /\ back = <<>>
    /\ dgout = <<>>

ApplyProcessRequest ==
    /\ phase = "init"
    /\ resp' = process_request(NameToRecords, m)
    /\ phase' = "processed"
    /\ UNCHANGED <<m, wire, back, dgout>>
    /\ UNCHANGED <<serveVars, unitVars>>

ApplyWrite ==
    /\ phase = "init"
    /\ wire' = DnsMessage_write(m, BufSize)
    /\ phase' = "written"
    /\ UNCHANGED <<m, resp, back, dgout>>
    /\ UNCHANGED <<serveVars, unitVars>>

ApplyRead ==
    /\ phase = "written"
    /\ wire.ok
    /\ back' = DnsMessage_read(wire.out)
    /\ phase' = "read"
    /\ UNCHANGED <<m, resp, wire, dgout>>
    /\ UNCHANGED <<serveVars, unitVars>>

ApplyProcessDatagram ==
    /\ phase = "written"
    /\ wire.ok
    /\ dgout' = process_datagram(NameToRecords, wire.out)
    /\ phase' = "answered"
    /\ UNCHANGED <<m, resp, wire, back>>
    /\ UNCHANGED <<serveVars, unitVars>>

PureInit == IdleServe /\ InitPure /\ IdleUnit

PureNext ==
    \/ ApplyProcessRequest
    \/ ApplyWrite
    \/ ApplyRead
    \/ ApplyProcessDatagram

PureSpec == PureInit /\ [][PureNext]_vars

----------------------------------------------------------------------------
(* The properties of process_request, checked under PureSpec: resp is      *)
(* process_request(NameToRecords, m) once phase is "processed".            *)

Processed == phase = "processed"

\* the request passes the three tests of the header and the question list
Accepted(request) ==
    /\ ~request.header.is_response
    /\ request.header.op_code = Variant("Query")
    /\ Len(request.questions) > 0

\* the records of the table that have the name, and the type unless it is ANY
Matching(question) ==
    SelectSeq(Records,
              LAMBDA r : /\ r.name = question.name
                         /\ \/ question.typ = Variant("ANY")
                            \/ /\ r.kind # "Unknown"
                               /\ Variant(r.kind) = question.typ)

InZone(name) == \E i \in DOMAIN Records : Records[i].name = name

\* C1: every response of process_request has the request's id and opcode,
\* QR=1, AA=1, TC=0, the request's RD, RA=0, RCODE=NoError, no authority and
\* no additional count, the whole question list of the request, and empty
\* authority and additional lists.
C1_ResponseHeader ==
    (Processed /\ resp.ok) =>
        /\ resp.val.header.id = m.header.id
        /\ resp.val.header.op_code = m.header.op_code
        /\ resp.val.header.is_response = TRUE
        /\ resp.val.header.authoritative_answer = TRUE
        /\ resp.val.header.truncated = FALSE
        /\ resp.val.header.recursion_desired = m.header.recursion_desired
        /\ resp.val.header.recursion_available = FALSE
        /\ resp.val.header.response_code = Variant("NoError")
        /\ resp.val.header.name_server_count = 0
        /\ resp.val.header.additional_count = 0
        /\ resp.val.questions = m.questions
        /\ resp.val.name_servers = <<>>
        /\ resp.val.additional = <<>>

\* a request with TC and RA set and two questions gets a response
C1_Witness ==
    /\ Processed
    /\ resp.ok
    /\ m.header.truncated
    /\ m.header.recursion_available
    /\ m.header.recursion_desired
    /\ Len(m.questions) = 2

\* C2: when the name of the first question is a key of the table, the answers
\* are the records of the name that have the type of the question (all of
\* them for ANY), in the order of the table; with no such record the response
\* has no answer and is no NotFound.
C2_Answers ==
    (Processed /\ Accepted(m) /\ InZone(m.questions[1].name)) =>
        /\ resp.ok
        /\ resp.val.answers = Matching(m.questions[1])
        /\ resp.val.header.answer_count = Len(Matching(m.questions[1]))

\* a question for the MX records of a name that has A and AAAA records only
C2_Witness ==
    /\ Processed
    /\ Accepted(m)
    /\ m.questions[1].name = TxtAaa
    /\ m.questions[1].typ = Variant("MX")
    /\ resp.ok
    /\ resp.val.answers = <<>>

\* C3: process_request rejects in the order NotARequest, InvalidOpCode,
\* NoQuestion, NotFound, each whatever the later tests would say, and gives
\* no response in any of these cases.
C3_Precedence ==
    Processed =>
        /\ m.header.is_response => resp = MErr("NotARequest")
        /\ (~m.header.is_response /\ m.header.op_code # Variant("Query"))
               => resp = MErr("InvalidOpCode")
        /\ (/\ ~m.header.is_response
            /\ m.header.op_code = Variant("Query")
            /\ Len(m.questions) = 0) => resp = MErr("NoQuestion")
        /\ (Accepted(m) /\ ~InZone(m.questions[1].name))
               => resp = MErr("NotFound")
        /\ ~resp.ok => resp.val = <<>>

\* a response with the opcode Status and a question for a name of the table
C3_Witness ==
    /\ Processed
    /\ m.header.is_response
    /\ m.header.op_code = Variant("Status")
    /\ Len(m.questions) > 0
    /\ InZone(m.questions[1].name)
    /\ resp.err = "NotARequest"

----------------------------------------------------------------------------
(* Case of the names, checked under PureSpec: dgout is the answer of       *)
(* process_datagram to the bytes DnsMessage::write gives for m.            *)

Lowered(msg) ==
    [msg EXCEPT !.questions =
        [i \in DOMAIN msg.questions |->
            [msg.questions[i] EXCEPT !.name = to_ascii_lowercase(@)]]]

AnswersOf(datagram) ==
    IF datagram.ok THEN DnsMessage_read(datagram.out).val.answers
    ELSE <<"dropped", datagram.err>>

\* C4: the names of the questions read from the wire are in lower case, as
\* the names DnsName::new builds, and a query gets the answer records the
\* same query with its names in lower case gets.
C4_CaseInsensitive ==
    (phase = "answered" /\ m \in Requests) =>
        /\ DnsMessage_read(wire.out).val.questions = Lowered(m).questions
        /\ AnswersOf(dgout)
              = AnswersOf(process_datagram(NameToRecords, Encoded(Lowered(m))))

----------------------------------------------------------------------------
(* The properties of serve_udp, checked under Spec.  trace holds the calls *)
(* of the iteration serve_udp is in, or was in when it returned.           *)

Calls(c) == {i \in DOMAIN trace : trace[i].call = c}
Has(c) == Calls(c) # {}

\* the datagram of this iteration, once recv_from has given one
Received == Len(trace) >= 1 /\ trace[1].call = "recv_from" /\ trace[1].ok

\* the iteration is over without a return of serve_udp other than the one
\* of the loop test
Continuing == pc = "top" \/ (pc = "done" /\ result = "ok")

\* C5: when process_datagram fails on the received datagram, nothing is
\* sent, record is not called, and serve_udp is back at the loop test.
C5_DropOnError ==
    (Has("process_datagram") /\ ~process_datagram(NameToRecords, buf).ok) =>
        /\ ~Has("send_to")
        /\ ~Has("record")
        /\ Continuing

\* a request whose response does not fit in 512 bytes has been dropped
C5_Witness ==
    /\ pc = "top"
    /\ Has("process_datagram")
    /\ lastErr = "ResponseBufferFull"
    /\ process_datagram(NameToRecords, buf) = WErr("ResponseBufferFull")

SocketFailures == {"recv_from", "send_to", "short_send"}
SetupFailures == {"set_read_timeout", "local_addr"}

\* C6 as stated: serve_udp fails only for a recv_from error that is no
\* timeout, a send_to error or a short send, and succeeds only through the
\* loop test.
C6_Original ==
    pc = "done" =>
        \/ result = "ok" /\ cause = "revoked" /\ revoked
        \/ result = "err" /\ cause \in SocketFailures

\* C6: serve_udp returns a failure only from recv_from failing with no
\* timeout, from send_to failing or sending another length than the one of
\* the response, or from set_read_timeout or local_addr failing before the
\* loop; a timeout, a refusal of the rate limiter and a bad datagram never
\* make it return, and it returns success only from the loop test with the
\* permit revoked.
C6_ReturnCauses ==
    [][(pc # "done" /\ pc' = "done") =>
          \/ result' = "ok" /\ pc = "top" /\ revoked
          \/ /\ result' = "err" /\ pc = "recv" /\ cause' = "recv_from"
             /\ trace' = trace
          \/ /\ result' = "err" /\ pc = "send" /\ cause' = "send_to"
             /\ ~trace'[Len(trace')].ok
          \/ /\ result' = "err" /\ pc = "send" /\ cause' = "short_send"
             /\ trace'[Len(trace')].ok
             /\ trace'[Len(trace')].n # Len(out)
          \/ result' = "err" /\ pc = "setup" /\ cause' \in SetupFailures]_vars

\* serve_udp has failed before its loop
C6_Witness ==
    /\ pc = "done"
    /\ result = "err"
    /\ cause \in SetupFailures
    /\ received = 0

\* C7: attempt is called once for each datagram recv_from gives, before
\* process_datagram, and not after a timeout; after a refusal there is no
\* process_datagram, no record and no send_to, and serve_udp is back at the
\* loop test.
C7_AdmissionOnce ==
    /\ Cardinality(Calls("attempt")) <= 1
    /\ Has("attempt") => Received /\ Calls("attempt") = {2}
    /\ (Received /\ pc # "attempt") => Has("attempt")
    /\ (Len(trace) >= 1 /\ ~Received) => Len(trace) = 1
    /\ \A i \in Calls("process_datagram") : i = 3 /\ trace[2].ok
    /\ (Has("attempt") /\ ~trace[2].ok) =>
           /\ Len(trace) = 2
           /\ Continuing

\* a datagram has been refused
C7_Witness ==
    /\ pc = "top"
    /\ Received
    /\ Has("attempt")
    /\ ~trace[2].ok

\* the answer of process_datagram to the datagram of this iteration
Answer == process_datagram(NameToRecords, trace[1].bytes)

\* C8: for a datagram that is admitted and that process_datagram answers,
\* record is called once, with the length of the response, before send_to;
\* send_to is given the bytes process_datagram returned and the source
\* address of the datagram of this iteration.
C8_RecordThenSend ==
    /\ Cardinality(Calls("record")) <= 1
    /\ Cardinality(Calls("send_to")) <= 1
    /\ \A i \in Calls("record") :
          /\ i = 4
          /\ Received /\ trace[1].bytes = buf
          /\ trace[2].call = "attempt" /\ trace[2].ok
          /\ trace[3].call = "process_datagram" /\ trace[3].ok
          /\ Answer.ok
          /\ trace[i].n = Len(Answer.out)
    /\ \A i \in Calls("send_to") :
          /\ i = 5
          /\ Calls("record") = {4}
          /\ trace[i].bytes = Answer.out
          /\ trace[i].addr = trace[1].addr
    /\ (/\ Has("attempt") /\ trace[2].ok /\ Answer.ok
        /\ pc \notin {"process", "record"}) =>
           /\ Calls("record") = {4}
           /\ pc = "send" \/ Calls("send_to") = {5}

\* a response with two answers has been recorded and sent whole
C8_Witness ==
    /\ pc = "top"
    /\ Calls("send_to") = {5}
    /\ trace[5].ok
    /\ trace[5].n = Len(trace[5].bytes)
    /\ trace[5].n > Len(buf)
    /\ trace[5].addr = "client2"

----------------------------------------------------------------------------
(* Cancellation, checked under FairSpec. *)

\* C9: once the permit is revoked, serve_udp returns success unless a socket
\* call fails, and at most one call of recv_from completes after the
\* revocation.
C9_Cancellation ==
    /\ revoked ~> (pc = "done" /\ (result = "ok" \/ cause \in SocketFailures
                                                 \/ cause \in SetupFailures))
    /\ [](lateRecv <= 1)

\* a datagram has arrived after the revocation and serve_udp has returned
C9_Witness ==
    /\ pc = "done"
    /\ result = "ok"
    /\ lateRecv = 1
    /\ Received

----------------------------------------------------------------------------
(* The round trip of a message, checked under PureSpec: wire is            *)
(* DnsMessage::write of m into 512 bytes and back is DnsMessage::read of   *)
(* the bytes written.                                                      *)

\* the name is one DnsName::new gives
Parsed(name) == DnsName_new(name).ok /\ DnsName_new(name).val = name

NamesOf(msg) ==
    {msg.questions[i].name : i \in DOMAIN msg.questions}
    \cup UNION {{r.name} \cup (IF r.kind = "CNAME" THEN {r.target} ELSE {}) :
                   r \in {(msg.answers \o msg.name_servers \o msg.additional)[i] :
                             i \in 1..(Len(msg.answers) + Len(msg.name_servers)
                                          + Len(msg.additional))}}

RecordsOf(msg) ==
    {(msg.answers \o msg.name_servers \o msg.additional)[i] :
        i \in 1..(Len(msg.answers) + Len(msg.name_servers)
                     + Len(msg.additional))}

RoundTripInput(msg) ==
    /\ msg.header.question_count = Len(msg.questions)
    /\ msg.header.answer_count = Len(msg.answers)
    /\ msg.header.name_server_count = Len(msg.name_servers)
    /\ msg.header.additional_count = Len(msg.additional)
    /\ \A n \in NamesOf(msg) : Parsed(n)
    /\ \A r \in RecordsOf(msg) : r.kind \in {"A", "AAAA", "CNAME"}
    /\ \A i \in DOMAIN msg.questions :
          msg.questions[i].class \in {Variant("Internet"), Variant("Any")}

\* C10: a message whose counts are the lengths of its lists, whose names are
\* names DnsName::new gives, whose records are A, AAAA or CNAME records,
\* whose questions are of class Internet or Any and which is written in 512
\* bytes is read back equal from the bytes written.
C10_RoundTrip ==
    (phase = "read" /\ wire.ok /\ RoundTripInput(m)) =>
        back.ok /\ back.val = m

----------------------------------------------------------------------------
(* The enumerations of dns_type.rs, dns_class.rs, dns_op_code.rs and
   dns_response_code.rs: new and num applied to a drawn number or value *)

U16Max == 65535
U8Max == 255
NibbleMax == 15

Enums == {"DnsType", "DnsClass", "DnsOpCode", "DnsResponseCode"}

Enum_new(k, n) ==
    CASE k = "DnsType" -> DnsType_new(n)
      [] k = "DnsClass" -> DnsClass_new(n)
      [] k = "DnsOpCode" -> DnsOpCode_new(n)
      [] k = "DnsResponseCode" -> DnsResponseCode_new(n)

Enum_num(k, v) ==
    CASE k = "DnsType" -> DnsType_num(v)
      [] k = "DnsClass" -> DnsClass_num(v)
      [] k = "DnsOpCode" -> DnsOpCode_num(v)
      [] k = "DnsResponseCode" -> DnsResponseCode_num(v)

\* the numbers new takes: a u16 for type and class, a u8 for the other two
Numbers(k) ==
    IF k \in {"DnsType", "DnsClass"} THEN 0..U16Max ELSE 0..U8Max

\* the variants without a payload
Named(k) ==
    CASE k = "DnsType" ->
             {"A", "AAAA", "CNAME", "MX", "NS", "PTR", "SOA", "TXT", "ANY"}
      [] k = "DnsClass" -> {"Internet", "Any"}
      [] k = "DnsOpCode" -> {"Query", "InverseQuery", "Status"}
      [] k = "DnsResponseCode" ->
             {"NoError", "FormatError", "ServerFailure", "NameError",
              "NotImplemented", "Refused"}

\* the variant with a payload
Fallback(k) ==
    IF k \in {"DnsType", "DnsClass"} THEN "Unknown" ELSE "Reserved"

\* every value of the enumeration: the payload is any number of its type
Values(k) ==
    {Variant(t) : t \in Named(k)}
    \cup {Carrying(Fallback(k), n) : n \in Numbers(k)}

\* v is one of Values(k)
IsValue(k, v) ==
    \/ v.tag \in Named(k) /\ v.n = 0
    \/ v.tag = Fallback(k) /\ v.n \in Numbers(k)

InitEnum ==
    /\ kind \in Enums
    /\ \/ stage = "number" /\ arg \in Numbers(kind)
       \/ stage = "value" /\ arg \in Values(kind)
    /\ other = <<>>
    /\ once = <<>>
    /\ twice = <<>>

\* new(n)
ApplyNew ==
    /\ stage = "number"
    /\ once' = Enum_new(kind, arg)
    /\ stage' = "new"
    /\ UNCHANGED <<kind, arg, other, twice>>
    /\ UNCHANGED <<serveVars, pureVars>>

\* new(n).num()
ApplyNumOfNew ==
    /\ stage = "new"
    /\ twice' = Enum_num(kind, once)
    /\ stage' = "new_num"
    /\ UNCHANGED <<kind, arg, other, once>>
    /\ UNCHANGED <<serveVars, pureVars>>

\* v.num()
ApplyNum ==
    /\ stage = "value"
    /\ once' = Enum_num(kind, arg)
    /\ stage' = "num"
    /\ UNCHANGED <<kind, arg, other, twice>>
    /\ UNCHANGED <<serveVars, pureVars>>

\* new(v.num())
ApplyNewOfNum ==
    /\ stage = "num"
    /\ twice' = Enum_new(kind, once)
    /\ stage' = "num_new"
    /\ UNCHANGED <<kind, arg, other, once>>
    /\ UNCHANGED <<serveVars, pureVars>>

EnumInit == IdleServe /\ IdlePure /\ InitEnum

EnumNext ==
    \/ ApplyNew
    \/ ApplyNumOfNew
    \/ ApplyNum
    \/ ApplyNewOfNum

EnumSpec == EnumInit /\ [][EnumNext]_vars

----------------------------------------------------------------------------
(* C11 *)

\* C11: for every value v of the four enumerations, the named variants and
\* every Unknown(n) and Reserved(n), new(v.num()) is v.
C11_ValueRoundTrip ==
    stage = "num_new" => twice = arg

----------------------------------------------------------------------------
(* C12 *)

\* the number in the bytes written for the value read from the bytes that
\* hold n: two bytes for a type or a class, the flag bytes of a header for an
\* opcode or a response code
Carried(k, n) ==
    CASE k = "DnsType" ->
             Let(DnsType_read(u16_to_be_bytes(n), 0), LAMBDA r :
                 read_u16_be(DnsType_write(r.val, WOk(<<>>), 2).out, 0).val)
      [] k = "DnsClass" ->
             Let(DnsClass_read(u16_to_be_bytes(n), 0), LAMBDA r :
                 read_u16_be(DnsClass_write(r.val, WOk(<<>>), 2).out, 0).val)
      [] k = "DnsOpCode" ->
             Let(DnsMessageHeader_read(
                     <<0, 0, n * 8, 0, 0, 0, 0, 0, 0, 0, 0, 0>>, 0),
                 LAMBDA r :
                 (DnsMessageHeader_write(r.val, WOk(<<>>), BufSize).out[3]
                     \div 8) % (NibbleMax + 1))
      [] k = "DnsResponseCode" ->
             Let(DnsMessageHeader_read(
                     <<0, 0, 0, n, 0, 0, 0, 0, 0, 0, 0, 0>>, 0),
                 LAMBDA r :
                 DnsMessageHeader_write(r.val, WOk(<<>>), BufSize).out[4]
                     % (NibbleMax + 1))

\* C12: for every number n new takes, new(n) is a value of the enumeration
\* and new(n).num() is n; a number of the field's width (16 bits for a type
\* or a class, 4 bits for an opcode or a response code) read from the bytes
\* of a message is the number written for the value read.
C12_NumberRoundTrip ==
    /\ stage \in {"new", "new_num"} => IsValue(kind, once)
    /\ stage = "new_num" =>
          /\ twice = arg
          /\ (kind \in {"DnsType", "DnsClass"} \/ arg <= NibbleMax) =>
                Carried(kind, arg) = arg

\* a number outside the named set went through new and num
C12_Witness ==
    /\ stage = "new_num"
    /\ once.tag = Fallback(kind)
    /\ twice = arg
    /\ arg > 0

----------------------------------------------------------------------------
(* dns_name.rs: DnsName::new applied to a drawn text, and DnsName::read to
   the bytes of drawn labels *)

\* 'a', 'B', '1', '-' and '.'
Alphabet == {97, 66, 49, Hyphen, Dot}

\* a label of n letters
Lbl(n) == [i \in 1..n |-> 97]

\* the labels of the lengths lens, joined with '.'
RECURSIVE TextOf(_)
TextOf(lens) ==
    IF Len(lens) = 0 THEN <<>>
    ELSE IF Len(lens) = 1 THEN Lbl(lens[1])
    ELSE Lbl(lens[1]) \o <<Dot>> \o TextOf(Tail(lens))

\* the labels of the lengths lens as DnsName::read expects them: each after
\* its length byte, and a zero byte at the end
RECURSIVE WireOf(_)
WireOf(lens) ==
    IF Len(lens) = 0 THEN <<0>>
    ELSE <<lens[1]>> \o Lbl(lens[1]) \o WireOf(Tail(lens))

\* label lengths at the limits: a label of 63 and of 64 bytes, names of 255,
\* 256 and 253 bytes, a label of 64 bytes before and after a short one
LabelLengths ==
    {<<1>>, <<2, 1>>, <<MaxLabelLen>>, <<MaxLabelLen + 1>>,
     <<MaxLabelLen, MaxLabelLen, MaxLabelLen, MaxLabelLen>>,
     <<MaxLabelLen, MaxLabelLen, MaxLabelLen, MaxLabelLen - 1, 1>>,
     <<MaxLabelLen, MaxLabelLen, MaxLabelLen, MaxLabelLen - 2, 1>>,
     <<MaxLabelLen, MaxLabelLen, MaxLabelLen, MaxLabelLen - 3, 1>>,
     <<MaxLabelLen + 1, 1>>, <<1, MaxLabelLen + 1>>}

\* every text of up to MaxTextLen bytes of the alphabet; the texts at the
\* limits, with and without a trailing '.'; 128 one-letter labels (255
\* bytes), and 128 and one more
Texts ==
    SeqsUpTo(Alphabet, MaxTextLen)
    \cup {TextOf(l) : l \in LabelLengths}
    \cup {TextOf(l) \o <<Dot>> : l \in LabelLengths}
    \cup {Labels((MaxNameLen + 1) \div 2),
          Labels((MaxNameLen + 1) \div 2) \o <<Dot>>,
          Labels((MaxNameLen + 1) \div 2 + 1)}

flip_case(b) ==
    IF is_ascii_lowercase(b) THEN b - 32
    ELSE IF is_ascii_uppercase(b) THEN b + 32
    ELSE b

\* texts that differ from x in letter case only: for a short x all of them,
\* for a long x the one with every letter in the other case
Recased(x) ==
    IF Len(x) <= MaxTextLen + 1
    THEN {[i \in 1..Len(x) |-> IF i \in S THEN flip_case(x[i]) ELSE x[i]] :
             S \in SUBSET (1..Len(x))}
    ELSE {x, [i \in 1..Len(x) |-> flip_case(x[i])]}

InitName ==
    /\ kind = "DnsName"
    /\ \/ stage = "text" /\ arg \in Texts /\ other = <<>>
       \/ stage = "wire" /\ other \in LabelLengths /\ arg = WireOf(other)
    /\ once = <<>>
    /\ twice = <<>>

\* DnsName::new(x)
NewName ==
    /\ stage = "text"
    /\ once' = DnsName_new(arg)
    /\ stage' = "new"
    /\ UNCHANGED <<kind, arg, other, twice>>
    /\ UNCHANGED <<serveVars, pureVars>>

\* DnsName::new(DnsName::new(x).inner())
NewAgain ==
    /\ stage = "new"
    /\ once.ok
    /\ twice' = DnsName_new(once.val)
    /\ stage' = "new_new"
    /\ UNCHANGED <<kind, arg, other, once>>
    /\ UNCHANGED <<serveVars, pureVars>>

\* DnsName::new of a text that differs from x in letter case only
NewRecased ==
    /\ stage = "new"
    /\ \E y \in Recased(arg) :
          /\ other' = y
          /\ twice' = DnsName_new(y)
    /\ stage' = "new_case"
    /\ UNCHANGED <<kind, arg, once>>
    /\ UNCHANGED <<serveVars, pureVars>>

\* DnsName::new of x followed by one '.'
NewDotted ==
    /\ stage = "new"
    /\ other' = arg \o <<Dot>>
    /\ twice' = DnsName_new(arg \o <<Dot>>)
    /\ stage' = "new_dot"
    /\ UNCHANGED <<kind, arg, once>>
    /\ UNCHANGED <<serveVars, pureVars>>

\* DnsName::read of the bytes
ReadName ==
    /\ stage = "wire"
    /\ once' = DnsName_read(arg, 0)
    /\ stage' = "read"
    /\ UNCHANGED <<kind, arg, other, twice>>
    /\ UNCHANGED <<serveVars, pureVars>>

NameInit == IdleServe /\ IdlePure /\ InitName

NameNext ==
    \/ NewName
    \/ NewAgain
    \/ NewRecased
    \/ NewDotted
    \/ ReadName

NameSpec == NameInit /\ [][NameNext]_vars

----------------------------------------------------------------------------
(* C13 *)

EndsWithDot(x) == Len(x) > 0 /\ x[Len(x)] = Dot

Idempotent == stage = "new_new" => twice = once

CaseInsensitive ==
    (stage = "new_case" /\ once.ok) => twice = once

\* C13 as stated: new(new(x).inner()) is new(x), texts that differ in letter
\* case only give equal names, and every accepted x followed by one '.'
\* gives the name x gives.
C13_Original ==
    /\ Idempotent
    /\ CaseInsensitive
    /\ (stage = "new_dot" /\ once.ok) => twice = once

\* C13: for every text x DnsName::new accepts, new(new(x).inner()) is
\* new(x); a text that differs from x in letter case only is accepted and
\* gives the same name; x followed by one '.' gives the same name when x
\* does not end in '.', and is rejected when x does.
C13_Normalization ==
    /\ Idempotent
    /\ CaseInsensitive
    /\ (stage = "new_dot" /\ once.ok) =>
          IF EndsWithDot(arg) THEN ~twice.ok ELSE twice = once

\* an accepted text with upper-case letters and a trailing '.' was given
\* again with one more '.'
C13_Witness ==
    /\ stage = "new_dot"
    /\ once.ok
    /\ EndsWithDot(arg)
    /\ once.val # strip_suffix(arg)

----------------------------------------------------------------------------
(* C14 *)

\* x without its one trailing '.' is empty, begins or ends with '.', or has
\* two adjacent '.'
HasEmptyLabel(x) ==
    LET n == IF EndsWithDot(x) THEN Len(x) - 1 ELSE Len(x)
    IN \/ n = 0
       \/ x[1] = Dot
       \/ x[n] = Dot
       \/ \E i \in 1..(n - 1) : x[i] = Dot /\ x[i+1] = Dot

\* x has MaxLabelLen + 1 bytes in a row without a '.'
HasLongLabel(x) ==
    \E i \in 1..(Len(x) - MaxLabelLen) :
        \A j \in i..(i + MaxLabelLen) : x[j] # Dot

\* the length of x without its one trailing '.'
NameLen(x) == IF EndsWithDot(x) THEN Len(x) - 1 ELSE Len(x)

OnlyLettersAndDots(x) == \A i \in 1..Len(x) : x[i] = Dot \/ is_letter(x[i])

\* C14: DnsName::new rejects a text with an empty label, with a label of
\* more than 63 bytes, or of more than 255 bytes after one trailing '.' is
\* stripped, and accepts a text of letters and '.' within these limits, a
\* label of exactly 63 bytes and a name of exactly 255 bytes among them;
\* DnsName::read returns InvalidLabel for a label of more than 63 bytes,
\* NameTooLong for labels of up to 63 bytes that make a name of more than
\* 255 bytes, and the name otherwise.
C14_Limits ==
    /\ stage = "new" =>
          /\ HasEmptyLabel(arg) => ~once.ok
          /\ HasLongLabel(arg) => ~once.ok
          /\ NameLen(arg) > MaxNameLen => ~once.ok
          /\ (/\ OnlyLettersAndDots(arg)
              /\ ~HasEmptyLabel(arg)
              /\ ~HasLongLabel(arg)
              /\ NameLen(arg) <= MaxNameLen) => once.ok
    /\ stage = "read" =>
          IF \E i \in 1..Len(other) : other[i] > MaxLabelLen
          THEN ~once.ok /\ once.err = "InvalidLabel"
          ELSE IF Len(TextOf(other)) > MaxNameLen
          THEN ~once.ok /\ once.err = "NameTooLong"
          ELSE once.ok /\ once.val = TextOf(other)

\* a name of exactly 255 bytes in four labels of 63 bytes was accepted
C14_Witness ==
    /\ stage = "new"
    /\ once.ok
    /\ Len(once.val) = MaxNameLen
    /\ Len(split(once.val)) = 4

----------------------------------------------------------------------------
(* dns_message.rs: DnsMessage::read applied to the bytes of a datagram with
   drawn additional records, some of them malformed *)

\* the bytes of a resource record: NAME, TYPE, CLASS, TTL, RDLENGTH, RDATA
RecordWire(name, typ, class, ttl, rdlength, rdata) ==
    name \o u16_to_be_bytes(typ) \o u16_to_be_bytes(class)
         \o write_u32_be(WOk(<<>>), 4, ttl).out
         \o u16_to_be_bytes(rdlength) \o rdata

NameWire(name) == DnsName_write(name, WOk(<<>>), NameBufSize).out

\* a record on the wire: its bytes, whether DnsRecord::read decodes them,
\* and the record they hold
Entry(wire0, good, rec) == [wire |-> wire0, good |-> good, rec |-> rec]

EntryA ==
    Entry(RecordWire(NameWire(TxtAaa), 1, 1, TtlSeconds, 4, Ipv4First),
          TRUE, DnsRecord_A(TxtAaa, Ipv4First))
\* class Any and a TTL of 5 seconds
EntryAAAA ==
    Entry(RecordWire(NameWire(TxtCcc), 28, 255, 5, 16, Ipv6First),
          TRUE, DnsRecord_AAAA(TxtCcc, Ipv6First))
EntryCNAME ==
    Entry(RecordWire(NameWire(TxtBbb), 5, 1, TtlSeconds,
                     Len(NameWire(TxtCcc)), NameWire(TxtCcc)),
          TRUE, DnsRecord_CNAME(TxtBbb, TxtCcc))
\* an MX record: preference 10 and the root name
EntryMX ==
    Entry(RecordWire(NameWire(TxtAaa), 15, 1, TtlSeconds, 3, <<0, 10, 0>>),
          TRUE, DnsRecord_Unknown(TxtAaa, Variant("MX")))
\* class 3 (Chaos)
EntryBadClass ==
    Entry(RecordWire(NameWire(TxtAaa), 1, 3, TtlSeconds, 4, Ipv4First),
          FALSE, <<>>)
\* the owner name "1a": a label that begins with a digit
EntryBadLabel ==
    Entry(RecordWire(<<2, 49, 97, 0>>, 1, 1, TtlSeconds, 4, Ipv4First),
          FALSE, <<>>)
\* an A record with three bytes of RDATA
EntryShortA ==
    Entry(RecordWire(NameWire(TxtAaa), 1, 1, TtlSeconds, 3, <<10, 0, 0>>),
          FALSE, <<>>)
\* a CNAME record whose target is the label "-"
EntryBadTarget ==
    Entry(RecordWire(NameWire(TxtBbb), 5, 1, TtlSeconds, 3, <<1, Hyphen, 0>>),
          FALSE, <<>>)

GoodEntries == {EntryA, EntryAAAA, EntryCNAME, EntryMX}
BadEntries == {EntryBadClass, EntryBadLabel, EntryShortA, EntryBadTarget}

\* the additional sections: up to MaxAdditional records
AdditionalLists ==
    SeqsUpTo(GoodEntries \cup BadEntries, MaxAdditional) \ {<<>>}

RECURSIVE WireOfEntries(_)
WireOfEntries(entries) ==
    IF Len(entries) = 0 THEN <<>>
    ELSE entries[1].wire \o WireOfEntries(Tail(entries))

\* a response with one question, one answer, no authority record and the
\* additional records entries
DatagramWith(entries) ==
    DnsMessageHeader_write(
        Header(TestId, TRUE, Variant("Query"), TRUE, FALSE, TRUE, FALSE,
               Variant("NoError"), 1, 1, 0, Len(entries)),
        WOk(<<>>), BufSize).out
    \o DnsQuestion_write(Question(TxtAaa, Variant("A"), Variant("Internet")),
                         WOk(<<>>), BufSize).out
    \o EntryA.wire
    \o WireOfEntries(entries)

InitRead ==
    /\ kind = "DnsMessage"
    /\ stage = "datagram"
    /\ other \in AdditionalLists
    /\ arg = DatagramWith(other)
    /\ once = <<>>
    /\ twice = <<>>

\* DnsMessage::read(&mut buf)
ReadDatagram ==
    /\ stage = "datagram"
    /\ once' = DnsMessage_read(arg)
    /\ stage' = "read"
    /\ UNCHANGED <<kind, arg, other, twice>>
    /\ UNCHANGED <<serveVars, pureVars>>

\* answer_response of the message read
AnswerRead ==
    /\ stage = "read"
    /\ once.ok
    /\ \E n \in 0..Len(Records) :
          twice' = answer_response(once.val, SubSeq(Records, 1, n))
    /\ stage' = "answered"
    /\ UNCHANGED <<kind, arg, other, once>>
    /\ UNCHANGED <<serveVars, pureVars>>

\* error_response of the message read
RefuseRead ==
    /\ stage = "read"
    /\ once.ok
    /\ \E rc \in {Variant("NameError"), Variant("ServerFailure")} :
          twice' = error_response(once.val, rc)
    /\ stage' = "refused"
    /\ UNCHANGED <<kind, arg, other, once>>
    /\ UNCHANGED <<serveVars, pureVars>>

\* DnsMessage::write of the message read
WriteRead ==
    /\ stage = "read"
    /\ once.ok
    /\ twice' = DnsMessage_write(once.val, BufSize)
    /\ stage' = "written"
    /\ UNCHANGED <<kind, arg, other, once>>
    /\ UNCHANGED <<serveVars, pureVars>>

ReadInit == IdleServe /\ IdlePure /\ InitRead

ReadNext ==
    \/ ReadDatagram
    \/ AnswerRead
    \/ RefuseRead
    \/ WriteRead

ReadSpec == ReadInit /\ [][ReadNext]_vars

----------------------------------------------------------------------------
(* C15 *)

\* the records of the entries that decode, in order
RECURSIVE WellFormed(_)
WellFormed(entries) ==
    IF Len(entries) = 0 THEN <<>>
    ELSE (IF entries[1].good THEN <<entries[1].rec>> ELSE <<>>)
         \o WellFormed(Tail(entries))

Malformed(entries) == {i \in 1..Len(entries) : ~entries[i].good}

\* C15: when exactly one of the declared additional records is malformed,
\* DnsMessage::read succeeds and the additional list holds every other
\* declared additional record, in order.
C15_SkipMalformed ==
    (stage = "read" /\ Cardinality(Malformed(other)) = 1) =>
        /\ once.ok
        /\ once.val.additional = WellFormed(other)

----------------------------------------------------------------------------
(* C16 *)

CountsMatch(msg) ==
    /\ msg.header.question_count = Len(msg.questions)
    /\ msg.header.answer_count = Len(msg.answers)
    /\ msg.header.name_server_count = Len(msg.name_servers)
    /\ msg.header.additional_count = Len(msg.additional)

\* the counts of a message answer_response or error_response gave
ResponseCountsMatch ==
    (stage \in {"answered", "refused"} /\ twice.ok) => CountsMatch(twice.val)

\* C16: in every message DnsMessage::read, answer_response or error_response
\* gives, the four counts of the header are the lengths of the four lists,
\* and the counts in the bytes DnsMessage::write gives for the message are
\* the lengths of the lists it wrote.
C16_Counts ==
    /\ (stage = "read" /\ once.ok) => CountsMatch(once.val)
    /\ ResponseCountsMatch
    /\ (stage = "written" /\ twice.ok) =>
          CountsMatch([once.val EXCEPT
                          !.header = DnsMessageHeader_read(twice.out, 0).val])

----------------------------------------------------------------------------
(* dns_record.rs: DnsRecord::read applied to the bytes of a drawn record,
   and DnsRecord::write to the record read or to a drawn record *)

\* type codes: A, AAAA, CNAME; MX, NS, PTR, SOA, TXT, ANY; three without a
\* name
NamedCodes == {1, 28, 5}
OtherCodes == {15, 2, 12, 6, 16, 255, 0, 99, U16Max}

\* the RDATA drawn for a record of the type code
RdataOf(code) ==
    CASE code = 1 -> {Ipv4First}
      [] code = 28 -> {Ipv6First}
      [] code = 5 -> {NameWire(TxtCcc)}
      [] OTHER -> {<<>>, <<0, 10, 0>>, Ipv6First \o Ipv4First}

\* the bytes already in the buffer DnsRecord::write is given: none, all but
\* five, all
Fills == {0, BufSize - 5, BufSize}

\* a record on the wire, the bytes that follow it in the buffer, and how
\* full the buffer is that it will be written to
WireRecords ==
    {[name |-> TxtAaa, code |-> c, class |-> k, ttl |-> s, rdata |-> d,
      rest |-> r, fill |-> f] :
        c \in NamedCodes \cup OtherCodes, k \in {1, 255},
        s \in {5, TtlSeconds},
        d \in UNION {RdataOf(x) : x \in NamedCodes \cup OtherCodes},
        r \in {<<>>, <<7, 7>>}, f \in Fills}

\* the records DnsRecord::write is given without a read before
DrawnRecords ==
    {[rec |-> r, fill |-> f] :
        r \in {Records[i] : i \in 1..Len(Records)}
               \cup {DnsRecord_CNAME(TxtBbb, <<>>),
                     DnsRecord_CNAME(TxtBbb, TextOf(<<MaxLabelLen, MaxLabelLen,
                                                      MaxLabelLen, MaxLabelLen>>))},
        f \in Fills}

InitRecord ==
    /\ kind = "DnsRecord"
    /\ \/ /\ stage = "record_wire"
          /\ other \in {x \in WireRecords : x.rdata \in RdataOf(x.code)}
          /\ arg = RecordWire(NameWire(other.name), other.code, other.class,
                              other.ttl, Len(other.rdata), other.rdata)
                   \o other.rest
       \/ /\ stage = "record"
          /\ other \in DrawnRecords
          /\ arg = other.rec
    /\ once = <<>>
    /\ twice = <<>>

\* a buffer with n bytes written
Filled(n) == WOk([i \in 1..n |-> 0])

\* DnsRecord::read(&mut buf)
ReadRecord ==
    /\ stage = "record_wire"
    /\ once' = DnsRecord_read(arg, 0)
    /\ stage' = "record_read"
    /\ UNCHANGED <<kind, arg, other, twice>>
    /\ UNCHANGED <<serveVars, pureVars>>

\* DnsRecord::write of the record read
WriteDecoded ==
    /\ stage = "record_read"
    /\ once.ok
    /\ once' = once.val
    /\ twice' = DnsRecord_write(once.val, Filled(other.fill), BufSize)
    /\ stage' = "record_written"
    /\ UNCHANGED <<kind, arg, other>>
    /\ UNCHANGED <<serveVars, pureVars>>

\* DnsRecord::write of a record of the zone
WriteRecord ==
    /\ stage = "record"
    /\ once' = arg
    /\ twice' = DnsRecord_write(arg, Filled(other.fill), BufSize)
    /\ stage' = "record_written"
    /\ UNCHANGED <<kind, arg, other>>
    /\ UNCHANGED <<serveVars, pureVars>>

RecordInit == IdleServe /\ IdlePure /\ InitRecord

RecordNext ==
    \/ ReadRecord
    \/ WriteDecoded
    \/ WriteRecord

RecordSpec == RecordInit /\ [][RecordNext]_vars

----------------------------------------------------------------------------
(* C17 *)

\* a record of another type than A, AAAA and CNAME was read
OtherTypeRead ==
    stage = "record_read" /\ other.code \in OtherCodes

\* it is decoded into Unknown with its name and type, and the cursor is past
\* exactly RDLENGTH bytes of RDATA
DecodedUnknown ==
    OtherTypeRead =>
        /\ once.ok
        /\ once.val = DnsRecord_Unknown(other.name, DnsType_new(other.code))
        /\ once.pos = Len(arg) - Len(other.rest)

UnknownWritten == stage = "record_written" /\ once.kind = "Unknown"

\* the bytes of name, type, class and TTL of the record fit in the buffer
HeadFits ==
    other.fill + Len(NameWire(once.name)) + 8 <= BufSize

\* C17 as stated: a record of another type and of class Internet or Any is
\* decoded into Unknown, the cursor past its RDATA, and DnsRecord::write of
\* an Unknown record always returns Internal.
C17_Original ==
    /\ DecodedUnknown
    /\ UnknownWritten => (~twice.ok /\ twice.err = "Internal")

\* C17: a record of another type and of class Internet or Any is decoded
\* into Unknown with its name and type, the cursor past exactly RDLENGTH
\* bytes of RDATA; DnsRecord::write of an Unknown record never succeeds: it
\* returns Internal when name, type, class and TTL fit in the buffer, and
\* ResponseBufferFull when they do not.
C17_UnknownRecords ==
    /\ DecodedUnknown
    /\ UnknownWritten =>
          /\ ~twice.ok
          /\ twice.err = (IF HeadFits THEN "Internal"
                          ELSE "ResponseBufferFull")

\* an Unknown record read from bytes with RDATA and bytes after it was
\* written to a buffer that has no room for it
C17_Witness ==
    /\ UnknownWritten
    /\ other.code \in OtherCodes
    /\ Len(other.rdata) > 0
    /\ Len(other.rest) > 0
    /\ twice.err = "ResponseBufferFull"

----------------------------------------------------------------------------
(* C18 *)

AddressWritten ==
    stage = "record_written" /\ once.kind \in {"A", "AAAA", "CNAME"}

\* the RDATA of the record: the octets of the address, or the bytes of the
\* target name
RdataBytes(r) ==
    IF r.kind = "CNAME" THEN NameWire(r.target) ELSE r.addr

\* owner name, type code, class 1, TTL 300, RDLENGTH, RDATA
ExpectedWire(r) ==
    NameWire(r.name)
    \o (CASE r.kind = "A" -> <<0, 1>>
          [] r.kind = "AAAA" -> <<0, 28>>
          [] r.kind = "CNAME" -> <<0, 5>>)
    \o <<0, 1>>
    \o <<0, 0, 1, 44>>
    \o <<Len(RdataBytes(r)) \div 256, Len(RdataBytes(r)) % 256>>
    \o RdataBytes(r)

\* the bytes of the target of a CNAME record fit in the buffer of as_bytes
TargetFits(r) == r.kind = "CNAME" => Len(r.target) + 2 <= NameBufSize

\* C18: the bytes DnsRecord::write of an A, AAAA or CNAME record appends to
\* the buffer are the owner name, the type code of the variant, class 1,
\* TTL 300, RDLENGTH equal to the number of RDATA bytes, and the RDATA (4
\* address bytes, 16 address bytes, or the bytes of the target name),
\* whatever class and TTL the record was decoded with; the write succeeds
\* when these bytes fit.
C18_WrittenRecord ==
    AddressWritten =>
        /\ once.kind = "A" => Len(RdataBytes(once)) = 4
        /\ once.kind = "AAAA" => Len(RdataBytes(once)) = 16
        /\ twice.ok =>
              twice.out = Filled(other.fill).out \o ExpectedWire(once)
        /\ (/\ TargetFits(once)
            /\ other.fill + Len(ExpectedWire(once)) <= BufSize) => twice.ok

\* a CNAME record decoded with class Any and a TTL of 5 seconds was written
C18_Witness ==
    /\ AddressWritten
    /\ once.kind = "CNAME"
    /\ "class" \in DOMAIN other
    /\ other.class = 255
    /\ other.ttl = 5
    /\ twice.ok

----------------------------------------------------------------------------
(* C19 *)

\* the requests with the header and the first question of request
SameFirstQuestion(request) ==
    {r \in Requests : /\ r.header = request.header
                      /\ Len(r.questions) > 0
                      /\ r.questions[1] = request.questions[1]}

\* the answers of a response, or the error
Outcome(r) == IF r.ok THEN [ok |-> TRUE, answers |-> r.val.answers,
                            count |-> r.val.header.answer_count]
              ELSE [ok |-> FALSE, err |-> r.err]

\* C19: two requests with the same header and the same first question get
\* the same answers or the same error, whatever their later questions are,
\* and a response carries all the questions of its request.
C19_FirstQuestionOnly ==
    (Processed /\ m \in Requests /\ Len(m.questions) > 0) =>
        /\ \A r \in SameFirstQuestion(m) :
              Outcome(process_request(NameToRecords, r)) = Outcome(resp)
        /\ resp.ok => resp.val.questions = m.questions

\* a request whose first question has answers and whose second question is
\* for a name that is not in the zone got the answers of the first, and
\* another request differs from it in the second question only
C19_Witness ==
    /\ Processed
    /\ m \in Requests
    /\ resp.ok
    /\ Len(resp.val.answers) > 0
    /\ Len(m.questions) = 2
    /\ ~InZone(m.questions[2].name)
    /\ \E r \in SameFirstQuestion(m) : r.questions[2] # m.questions[2]

----------------------------------------------------------------------------
(* C20, checked under FairSpec *)

\* the positions of serve_udp between recv_from and the return of send_to
InFlight == {"attempt", "process", "record", "send"}

\* the iteration went as far as the datagram allows: the rate limiter
\* refused it, process_datagram gave an error, or the whole response was
\* recorded and handed to send_to for the source address of the datagram
Completed ==
    \/ /\ Len(trace) = 2
       /\ trace[2].call = "attempt" /\ ~trace[2].ok
    \/ /\ Len(trace) = 3
       /\ trace[2].call = "attempt" /\ trace[2].ok
       /\ trace[3].call = "process_datagram" /\ ~trace[3].ok
       /\ ~Answer.ok
    \/ /\ Len(trace) = 5
       /\ trace[2].call = "attempt" /\ trace[2].ok
       /\ trace[3].call = "process_datagram" /\ trace[3].ok
       /\ trace[4].call = "record" /\ trace[4].n = Len(Answer.out)
       /\ trace[5].call = "send_to"
       /\ trace[5].bytes = Answer.out
       /\ trace[5].addr = trace[1].addr

\* C20: when the permit is revoked between the return of recv_from with a
\* datagram and the return of send_to, the iteration goes on through
\* admission, processing, recording and sending as without the revocation,
\* and serve_udp returns only after it.
C20_InFlight ==
    /\ []((revokedAt \in InFlight /\ pc \in {"top", "done"}) =>
             (Received /\ Completed))
    /\ (revokedAt \in InFlight) ~> (pc = "done")

\* the permit was revoked before record, the whole response was sent and
\* the loop ended
C20_Witness ==
    /\ revokedAt \in {"attempt", "process", "record"}
    /\ pc = "done"
    /\ result = "ok"
    /\ Len(trace) = 5
    /\ trace[5].ok
    /\ trace[5].n = Len(Answer.out)
    /\ trace[5].n > 0

----------------------------------------------------------------------------
(* dns_name.rs: DnsName::write and DnsName::as_bytes applied to a name
   DnsName::new gave, DnsName::read applied to drawn bytes, and each
   followed by the opposite function *)

\* numbers of one-letter labels around the 63 turns of the loop of
\* DnsName::read, and the most that fit in 255 bytes
LabelCounts ==
    {1, 2, MaxLabels - 2, MaxLabels - 1, MaxLabels, MaxLabels + 1,
     (MaxNameLen + 1) \div 2}

\* the names DnsName::new gives for the drawn texts and for the texts of
\* many one-letter labels
AcceptedNames ==
    {DnsName_new(x).val :
        x \in {y \in Texts \cup {Labels(k) : k \in LabelCounts} :
                  DnsName_new(y).ok}}

\* k one-letter labels as DnsName::read expects them
OneLetterWire(k) ==
    [i \in 1..(2*k + 1) |-> IF i = 2*k + 1 THEN 0
                            ELSE IF i % 2 = 1 THEN 1 ELSE 97]

\* bytes that follow the name in the buffer
Trailer == <<7, 7>>

\* the 12 bytes of a header and the name "aaa" at offset 12, where the
\* pointer C0 0C would lead; and as many other bytes
PrefixWithName == [i \in 1..12 |-> 0] \o <<3, 97, 97, 97, 0>>
PrefixOther == [i \in 1..17 |-> 255]

\* a name with a compression pointer after k one-letter labels
PointerWire(k) ==
    [i \in 1..(2*k) |-> IF i % 2 = 1 THEN 1 ELSE 97] \o <<192, 12>>

\* the bytes given to DnsName::read: the labels they hold when they are a
\* well-formed name (labels >= 0), else which of the length bytes is the
\* first above 63 (long)
WireName(bytes, labels, long) ==
    [bytes |-> bytes, labels |-> labels, long |-> long]

WireNames ==
    {WireName(OneLetterWire(k), k, 0) : k \in LabelCounts \cup {0}}
    \cup {WireName(WireOf(l), Len(l), 0) :
             l \in {x \in LabelLengths :
                       \A i \in 1..Len(x) : x[i] <= MaxLabelLen}}
    \cup {WireName(<<3, 65, 97, 66, 0>>, 1, 0)}
    \cup {WireName(PointerWire(k), -1, k + 1) :
             k \in {0, 1, MaxLabels - 1, MaxLabels}}
    \cup {WireName(WireOf(<<1, n>>), -1, 2) : n \in {MaxLabelLen + 1, 192}}
    \cup {WireName(<<n>> \o Lbl(MaxLabelLen), -1, 1) :
             n \in {MaxLabelLen + 1, 128, 192, 255}}

InitWireName ==
    /\ kind = "DnsName"
    /\ \/ /\ stage = "name"
          /\ arg \in AcceptedNames
          /\ other = <<>>
       \/ /\ stage = "bytes"
          /\ other \in WireNames
          /\ \E prefix \in {<<>>, PrefixWithName, PrefixOther} :
                arg = prefix \o other.bytes \o Trailer
    /\ once = <<>>
    /\ twice = <<>>

\* where the name begins in the bytes
StartOf(bytes, w) == Len(bytes) - Len(w.bytes) - Len(Trailer)

\* name.write(&mut out), out being an empty buffer of 512 bytes
WriteDrawnName ==
    /\ stage = "name"
    /\ once' = DnsName_write(arg, WOk(<<>>), BufSize)
    /\ stage' = "name_written"
    /\ UNCHANGED <<kind, arg, other, twice>>
    /\ UNCHANGED <<serveVars, pureVars>>

\* DnsName::read of the bytes written, with other bytes after them
ReadWrittenName ==
    /\ stage = "name_written"
    /\ once.ok
    /\ twice' = DnsName_read(once.out \o Trailer, 0)
    /\ stage' = "name_read_back"
    /\ UNCHANGED <<kind, arg, other, once>>
    /\ UNCHANGED <<serveVars, pureVars>>

\* name.as_bytes()
NameAsBytes ==
    /\ stage = "name"
    /\ once' = DnsName_as_bytes(arg)
    /\ stage' = "name_as_bytes"
    /\ UNCHANGED <<kind, arg, other, twice>>
    /\ UNCHANGED <<serveVars, pureVars>>

\* DnsName::read(&mut buf), the cursor of buf at the start of the name
ReadDrawnBytes ==
    /\ stage = "bytes"
    /\ once' = DnsName_read(arg, StartOf(arg, other))
    /\ stage' = "bytes_read"
    /\ UNCHANGED <<kind, arg, other, twice>>
    /\ UNCHANGED <<serveVars, pureVars>>

\* write of the name read
WriteReadName ==
    /\ stage = "bytes_read"
    /\ once.ok
    /\ twice' = DnsName_write(once.val, WOk(<<>>), BufSize)
    /\ stage' = "bytes_written_back"
    /\ UNCHANGED <<kind, arg, other, once>>
    /\ UNCHANGED <<serveVars, pureVars>>

WireNameInit == IdleServe /\ IdlePure /\ InitWireName

WireNameNext ==
    \/ WriteDrawnName
    \/ ReadWrittenName
    \/ NameAsBytes
    \/ ReadDrawnBytes
    \/ WriteReadName

WireNameSpec == WireNameInit /\ [][WireNameNext]_vars

----------------------------------------------------------------------------
(* C21 *)

\* C21: for every name DnsName::new accepts, DnsName::write into a buffer
\* with room succeeds, and DnsName::read of the bytes written returns the
\* name and leaves the cursor at their end.
C21_WriteRead ==
    /\ stage = "name_written" => once.ok
    /\ stage = "name_read_back" =>
          /\ twice.ok
          /\ twice.val = arg
          /\ twice.pos = Len(once.out)

----------------------------------------------------------------------------
(* C22 *)

\* C22: a well-formed name of up to 63 labels and at most 255 bytes on the
\* wire is decoded, a name of more than 63 labels gives TooManyLabels, and
\* DnsName::read of one-letter labels never goes further than 63 length
\* bytes and their labels.
C22_LabelCeiling ==
    (stage = "bytes_read" /\ other.labels >= 0) =>
        /\ (other.labels <= MaxLabels /\ Len(other.bytes) <= MaxNameLen) =>
              once.ok
        /\ other.labels > MaxLabels =>
              (~once.ok /\ once.err = "TooManyLabels")
        /\ other.bytes = OneLetterWire(other.labels) =>
              once.pos - StartOf(arg, other) <= 2 * MaxLabels

----------------------------------------------------------------------------
(* C27 *)

\* C27: DnsName::as_bytes returns no error for a name DnsName::new accepts.
C27_AsBytes ==
    stage = "name_as_bytes" => once.ok

----------------------------------------------------------------------------
(* C30 *)

\* C30: whenever DnsName::read returns a name, DnsName::write of the name
\* gives the bytes that read consumed, the name of the zero byte alone
\* included.
C30_ReadWrite ==
    stage = "bytes_written_back" =>
        /\ twice.ok
        /\ twice.out = SubSeq(arg, StartOf(arg, other) + 1, once.pos)

----------------------------------------------------------------------------
(* dns_record.rs: DnsRecord::read applied to A and AAAA records with a drawn
   RDLENGTH *)

\* an A or AAAA record with RDLENGTH n and n bytes of RDATA
RdataRecords ==
    {[name |-> TxtAaa, code |-> c, class |-> k, ttl |-> TtlSeconds,
      rdata |-> [i \in 1..n |-> i], rest |-> r, fill |-> 0] :
        c \in {1, 28}, k \in {1, 255}, n \in 0..MaxRdLength,
        r \in {<<>>, <<7, 7>>}}

InitRdata ==
    /\ kind = "DnsRecord"
    /\ stage = "record_wire"
    /\ other \in RdataRecords
    /\ arg = RecordWire(NameWire(other.name), other.code, other.class,
                        other.ttl, Len(other.rdata), other.rdata)
             \o other.rest
    /\ once = <<>>
    /\ twice = <<>>

RdataInit == IdleServe /\ IdlePure /\ InitRdata

RdataNext ==
    \/ ReadRecord
    \/ WriteDecoded

RdataSpec == RdataInit /\ [][RdataNext]_vars

----------------------------------------------------------------------------
(* C23 *)

\* the number of RDATA bytes of an address of the type code
AddressLen(code) == IF code = 1 THEN 4 ELSE 16

\* C23: DnsRecord::read accepts an A record only with RDLENGTH 4 and an AAAA
\* record only with RDLENGTH 16, and gives Truncated for any other RDLENGTH.
C23_ExactRdLength ==
    (stage = "record_read" /\ other.code \in {1, 28}) =>
        IF Len(other.rdata) = AddressLen(other.code)
        THEN once.ok
        ELSE ~once.ok /\ once.err = "Truncated"

----------------------------------------------------------------------------
(* dns_message.rs, server.rs: DnsMessage::read and process_datagram applied
   to a datagram with one entry in each section, one of the entries having
   a drawn class or a drawn name *)

Slots == <<"question", "answer", "authority", "additional">>

\* class values: Internet and Any, their neighbours, their bytes swapped
\* (256 and 65280), and the ends of the range
WireClasses == {0, 1, 2, 3, 4, 254, 255, 256, 65280, U16Max}

\* names with a length byte above 63
LongByteNames == {w \in WireNames : w.long > 0}

\* the bytes of a question or of an A record with the name and the class
EntryWire(slot, name, class) ==
    IF slot = "question"
    THEN name \o u16_to_be_bytes(1) \o u16_to_be_bytes(class)
    ELSE RecordWire(name, 1, class, TtlSeconds, 4, Ipv4First)

\* the entry of slot i is the drawn one, the others are well-formed
SectionWire(i, drawn, entry) ==
    IF Slots[i] = drawn THEN entry
    ELSE EntryWire(Slots[i], NameWire(TxtAaa), 1)

\* the drawn entry: its section, its class, its name, and which length byte
\* of the name is the first above 63 (0 when none is)
DrawnEntries ==
    {[slot |-> Slots[i], class |-> k, long |-> 0,
      wire |-> EntryWire(Slots[i], NameWire(TxtAaa), k)] :
        i \in 1..4, k \in WireClasses}
    \cup {[slot |-> Slots[i], class |-> 1, long |-> w.long,
           wire |-> EntryWire(Slots[i], w.bytes, 1)] :
             i \in 1..4, w \in LongByteNames}

\* a query (QR=0, opcode Query, RD=1) with one entry in each section
SectionDatagram(e) ==
    DnsMessageHeader_write(
        Header(TestId, FALSE, Variant("Query"), FALSE, FALSE, TRUE, FALSE,
               Variant("NoError"), 1, 1, 1, 1),
        WOk(<<>>), BufSize).out
    \o SectionWire(1, e.slot, e.wire) \o SectionWire(2, e.slot, e.wire)
    \o SectionWire(3, e.slot, e.wire) \o SectionWire(4, e.slot, e.wire)

\* where the drawn entry begins in the datagram
EntryOffset(e) ==
    CHOOSE n \in 0..Len(SectionDatagram(e)) :
        \E i \in 1..4 :
           /\ Slots[i] = e.slot
           /\ n = 12 + Len(SectionWire(1, e.slot, e.wire))
                         * (IF i > 1 THEN 1 ELSE 0)
                    + Len(SectionWire(2, e.slot, e.wire))
                         * (IF i > 2 THEN 1 ELSE 0)
                    + Len(SectionWire(3, e.slot, e.wire))
                         * (IF i > 3 THEN 1 ELSE 0)

InitSection ==
    /\ kind = "DnsMessage"
    /\ stage = "datagram"
    /\ other \in DrawnEntries
    /\ arg = SectionDatagram(other)
    /\ once = <<>>
    /\ twice = <<>>

\* DnsQuestion::read or DnsRecord::read with the cursor at the drawn entry
ReadEntry ==
    /\ stage = "datagram"
    /\ once' = IF other.slot = "question"
               THEN DnsQuestion_read(arg, EntryOffset(other))
               ELSE DnsRecord_read(arg, EntryOffset(other))
    /\ stage' = "entry_read"
    /\ UNCHANGED <<kind, arg, other, twice>>
    /\ UNCHANGED <<serveVars, pureVars>>

\* process_datagram(&name_to_records, &mut buf)
ProcessDrawn ==
    /\ stage = "datagram"
    /\ Len(arg) <= BufSize
    /\ once' = process_datagram(NameToRecords, arg)
    /\ stage' = "processed"
    /\ UNCHANGED <<kind, arg, other, twice>>
    /\ UNCHANGED <<serveVars, pureVars>>

SectionInit == IdleServe /\ IdlePure /\ InitSection

SectionNext ==
    \/ ReadDatagram
    \/ ReadEntry
    \/ ProcessDrawn

SectionSpec == SectionInit /\ [][SectionNext]_vars

----------------------------------------------------------------------------
(* C24 *)

AcceptedClass(k) == k = 1 \/ k = 255

Fatal(slot) == slot \in {"question", "answer", "authority"}

\* C24: DnsQuestion::read and DnsRecord::read return InvalidClass for every
\* class other than 1 and 255 and decode an entry of class 1 or 255;
\* DnsMessage::read fails with InvalidClass when the question, the answer
\* or the authority record has another class, and every question of a
\* message it returns has class Internet or Any.
C24_ClassChecked ==
    /\ (stage = "entry_read" /\ other.long = 0) =>
          IF AcceptedClass(other.class)
          THEN once.ok
          ELSE ~once.ok /\ once.err = "InvalidClass"
    /\ (stage = "read" /\ other.long = 0) =>
          /\ (Fatal(other.slot) /\ ~AcceptedClass(other.class)) =>
                (~once.ok /\ once.err = "InvalidClass")
          /\ once.ok =>
                /\ \A i \in DOMAIN once.val.questions :
                      once.val.questions[i].class
                         \in {Variant("Internet"), Variant("Any")}
                /\ other.slot = "question" =>
                      DnsClass_num(once.val.questions[1].class) = other.class
                /\ Len(once.val.answers) = 1
                /\ Len(once.val.name_servers) = 1
                /\ Len(once.val.additional)
                      = (IF AcceptedClass(other.class) THEN 1 ELSE 0)

\* a datagram whose authority record has class 3 was refused
C24_Witness ==
    /\ stage = "read"
    /\ other.slot = "authority"
    /\ other.class = 3
    /\ ~once.ok
    /\ once.err = "InvalidClass"

----------------------------------------------------------------------------
(* C26 *)

\* the datagram with every byte before the cursor replaced
Overwritten(bytes, cursor) ==
    [i \in 1..Len(bytes) |-> IF i <= cursor THEN U8Max ELSE bytes[i]]

\* the read of the drawn entry when the bytes before the cursor are others
ReadOverwritten ==
    IF other.slot = "question"
    THEN DnsQuestion_read(Overwritten(arg, EntryOffset(other)),
                          EntryOffset(other))
    ELSE DnsRecord_read(Overwritten(arg, EntryOffset(other)),
                        EntryOffset(other))

\* the entry with a length byte above 63 in its name is not decoded, and
\* the result does not depend on the bytes before the cursor
EntryRefused(errors) ==
    (stage = "entry_read" /\ other.long > 0) =>
        /\ ~once.ok
        /\ once.err \in errors
        /\ once.pos > EntryOffset(other)
        /\ ReadOverwritten.ok = once.ok
        /\ ReadOverwritten.err = once.err
        /\ ReadOverwritten.pos = once.pos

\* the datagram is dropped, or its additional record is skipped
DroppedOrSkipped ==
    /\ (stage = "read" /\ other.long > 0) =>
          IF Fatal(other.slot)
          THEN ~once.ok
          ELSE /\ once.ok
               /\ once.val.additional = <<>>
               /\ Len(once.val.questions) = 1
               /\ Len(once.val.answers) = 1
    /\ (stage = "processed" /\ other.long > 0) =>
          (once.ok <=> ~Fatal(other.slot))

\* C26 as stated: the error is Truncated or InvalidLabel on every name with
\* a length byte above 63.
C26_Original ==
    /\ EntryRefused({"Truncated", "InvalidLabel"})
    /\ DroppedOrSkipped

\* C26: DnsName::read never follows a pointer and never reads before the
\* cursor: a name with a length byte above 63 is refused, with Truncated or
\* InvalidLabel when fewer than 63 labels precede that byte and with
\* TooManyLabels when 63 labels precede it; the datagram with such a name in
\* its question, answer or authority record is dropped, and such an
\* additional record is skipped.
C26_PointersNotFollowed ==
    /\ EntryRefused(IF other.long > MaxLabels
                    THEN {"TooManyLabels"}
                    ELSE {"Truncated", "InvalidLabel"})
    /\ DroppedOrSkipped

\* the read of a question whose name is 63 labels and then a pointer
C26_Witness ==
    /\ stage = "entry_read"
    /\ other.slot = "question"
    /\ other.long = MaxLabels + 1
    /\ ~once.ok
    /\ once.err = "TooManyLabels"

----------------------------------------------------------------------------
(* dns_message_header.rs: DnsMessageHeader::write and DnsMessageHeader::read
   applied to one header *)

\* headers with every opcode, with every response code, and with every
\* combination of the five flags
HeaderValues ==
    {Header(TestId, qr, op, fl, fl, fl, ra, Variant("NoError"), 1, 2, 3, 4) :
        qr \in BOOLEAN, fl \in BOOLEAN, ra \in BOOLEAN,
        op \in Values("DnsOpCode")}
    \cup {Header(TestId, qr, Variant("Query"), fl, fl, fl, ra, rc,
                 1, 2, 3, 4) :
            qr \in BOOLEAN, fl \in BOOLEAN, ra \in BOOLEAN,
            rc \in Values("DnsResponseCode")}
    \cup {Header(id, qr, op, aa, tc, rd, ra, rc, 258, 0, U16Max, 4) :
            id \in {0, U16Max}, qr \in BOOLEAN, aa \in BOOLEAN,
            tc \in BOOLEAN, rd \in BOOLEAN, ra \in BOOLEAN,
            op \in {Variant("Status"), Carrying("Reserved", NibbleMax)},
            rc \in {Variant("Refused"), Carrying("Reserved", NibbleMax)}}

\* twelve bytes with every value of the byte that holds RA, Z and RCODE
HeaderBytes ==
    {<<154, 154, b1, b2, 0, 1, 0, 2, 0, 3, 0, 4>> :
        b1 \in {0, 133, U8Max}, b2 \in 0..U8Max}

InitHeader ==
    /\ kind = "DnsMessageHeader"
    /\ \/ stage = "header" /\ arg \in HeaderValues
       \/ stage = "header_bytes" /\ arg \in HeaderBytes
    /\ other = <<>>
    /\ once = <<>>
    /\ twice = <<>>

\* header.write(&mut out), out being an empty buffer of 512 bytes
WriteHeader ==
    /\ stage = "header"
    /\ once' = DnsMessageHeader_write(arg, WOk(<<>>), BufSize)
    /\ stage' = "header_written"
    /\ UNCHANGED <<kind, arg, other, twice>>
    /\ UNCHANGED <<serveVars, pureVars>>

\* DnsMessageHeader::read of the bytes written
ReadWrittenHeader ==
    /\ stage = "header_written"
    /\ once.ok
    /\ twice' = DnsMessageHeader_read(once.out, 0)
    /\ stage' = "header_read_back"
    /\ UNCHANGED <<kind, arg, other, once>>
    /\ UNCHANGED <<serveVars, pureVars>>

\* DnsMessageHeader::read of the drawn bytes
ReadHeaderBytes ==
    /\ stage = "header_bytes"
    /\ once' = DnsMessageHeader_read(arg, 0)
    /\ stage' = "header_bytes_read"
    /\ UNCHANGED <<kind, arg, other, twice>>
    /\ UNCHANGED <<serveVars, pureVars>>

HeaderInit == IdleServe /\ IdlePure /\ InitHeader

HeaderNext ==
    \/ WriteHeader
    \/ ReadWrittenHeader
    \/ ReadHeaderBytes

HeaderSpec == HeaderInit /\ [][HeaderNext]_vars

----------------------------------------------------------------------------
(* C25 *)

\* the bits 6, 5 and 4 of the byte that holds RA, Z and RCODE
ZBits(b) == (b \div 16) % 8

\* the bytes with the three Z bits cleared
ZCleared(bytes) == [bytes EXCEPT ![4] = @ - 16 * ZBits(@)]

\* each field of the header is in its own bits of the twelve bytes
OwnPositions(h, bytes) ==
    /\ Len(bytes) = 12
    /\ SubSeq(bytes, 1, 2) = u16_to_be_bytes(h.id)
    /\ bytes[3] \div 128 = FromBool(h.is_response)
    /\ (bytes[3] \div 8) % 16 = DnsOpCode_num(h.op_code)
    /\ (bytes[3] \div 4) % 2 = FromBool(h.authoritative_answer)
    /\ (bytes[3] \div 2) % 2 = FromBool(h.truncated)
    /\ bytes[3] % 2 = FromBool(h.recursion_desired)
    /\ bytes[4] \div 128 = FromBool(h.recursion_available)
    /\ ZBits(bytes[4]) = 0
    /\ bytes[4] % 16 = DnsResponseCode_num(h.response_code)
    /\ SubSeq(bytes, 5, 6) = u16_to_be_bytes(h.question_count)
    /\ SubSeq(bytes, 7, 8) = u16_to_be_bytes(h.answer_count)
    /\ SubSeq(bytes, 9, 10) = u16_to_be_bytes(h.name_server_count)
    /\ SubSeq(bytes, 11, 12) = u16_to_be_bytes(h.additional_count)

\* C25: for every header, the Reserved opcodes and response codes included,
\* write puts each field in its own bit positions with the Z bits zero, read
\* of the bytes written returns the header, and read gives the same header
\* whatever the Z bits of its input.
C25_HeaderRoundTrip ==
    /\ stage = "header_written" =>
          /\ once.ok
          /\ OwnPositions(arg, once.out)
    /\ stage = "header_read_back" =>
          /\ twice.ok
          /\ twice.val = arg
    /\ stage = "header_bytes_read" =>
          /\ once.ok
          /\ once.val = DnsMessageHeader_read(ZCleared(arg), 0).val

----------------------------------------------------------------------------
(* C28 *)

\* the bytes the response to the datagram d takes in a buffer without the
\* limit of 512 bytes, when d decodes and process_request answers it
Needed(d) ==
    Let(DnsMessage_read(d), LAMBDA request :
        IF ~request.ok THEN 0
        ELSE Let(process_request(NameToRecords, request.val),
                 LAMBDA response :
                     IF ~response.ok THEN 0
                     ELSE Len(DnsMessage_write(response.val, U16Max).out)))

\* the bytes are one whole message with TC clear
WholeMessage(bytes) ==
    /\ Len(bytes) >= 12
    /\ Len(bytes) <= BufSize
    /\ (bytes[3] \div 2) % 2 = 0
    /\ DnsMessage_read(bytes).ok
    /\ DnsMessage_read(bytes).pos = Len(bytes)

----------------------------------------------------------------------------
(* C29 *)

\* the counters are ordered, and an iteration whose recv_from timed out
\* makes no other call
Ordered ==
    /\ sent <= admitted
    /\ admitted <= received
    /\ Cardinality(Calls("recv_from")) <= 1
    /\ (Len(trace) >= 1 /\ ~trace[1].ok) =>
          /\ Len(trace) = 1
          /\ pc \in {"top", "done"}

\* a datagram is counted as the first call of an iteration
CountsReceived ==
    received' # received =>
        /\ received' = received + 1
        /\ pc = "recv"
        /\ trace = <<>>
        /\ trace'[1].call = "recv_from" /\ trace'[1].ok

\* a datagram is admitted once, after it was received in this iteration
CountsAdmitted ==
    admitted' # admitted =>
        /\ admitted' = admitted + 1
        /\ Received
        /\ ~Has("attempt")

\* a send is the one send of the iteration, to the source of the datagram
\* received and admitted in it, and the iteration ends with it
CountsSent ==
    sent' # sent =>
        /\ sent' = sent + 1
        /\ pc = "send"
        /\ Received
        /\ trace[2].call = "attempt" /\ trace[2].ok
        /\ ~Has("send_to")
        /\ trace'[Len(trace')].call = "send_to"
        /\ trace'[Len(trace')].addr = trace[1].addr
        /\ pc' \in {"top", "done"}

\* C29: after any sequence of iterations the datagrams sent are at most the
\* datagrams admitted, which are at most the datagrams received; each send
\* is caused by the one datagram received in its iteration, no datagram is
\* answered twice or retried, and nothing is sent on an iteration that
\* timed out.
C29_SendPerDatagram ==
    /\ []Ordered
    /\ [][CountsReceived /\ CountsAdmitted /\ CountsSent]_vars

\* two datagrams were received and admitted, one was answered and the other
\* dropped
C29_Witness ==
    /\ pc = "top"
    /\ received = 2
    /\ admitted = 2
    /\ sent = 1
    /\ lastErr # "none"

====
